---- MODULE Spec2Model ----
(***************************************************************************)
(* Model of the paired-measurement analysis dashboard (src/src/App.tsx and *)
(* its near-duplicate src/unnamed/part_000): the record aggregator, the    *)
(* statistical primitives and the orchestrating memo hooks.                *)
(*                                                                         *)
(* Numbers.  A JavaScript number is modelled exactly: a normalised         *)
(* rational [k |-> "rat", n, d], NaN, +/-Infinity, or a signed square root *)
(* of a rational ("surd", the value of Math.sqrt on a non-square).         *)
(* Floating-point rounding is not modelled.  undefined is Undef.           *)
(*                                                                         *)
(* Specifications.  Spec: one render over stored tables.  SpecLoad: the    *)
(* mount effect that requests and stores the tables, then the render.      *)
(* SpecRenders: SpecLoad, with the tables stored either in one batch or    *)
(* one per render.  SpecStats: the statistical primitives called on drawn  *)
(* series.  SpecMountOrStats: SpecLoad and SpecStats side by side.         *)
(***************************************************************************)
EXTENDS Integers, Sequences, FiniteSets, TLC

VARIABLES
  variant,               \* which source file is running: "App" or "part"
  loads,                 \* the parseCsvUrl promise of each requested table
  setCalls,              \* how many set-state calls the then-callback has made
  rawGrouped,            \* useState: raw per-trial table, or Null
  aggregated,            \* useState: pre-aggregated summary table, or Null
  wilcoxonPerEmotion,    \* useState: precomputed per-category table, or Null
  subjective,            \* useState: covariate table, or Null
  spearman,              \* useState: precomputed correlation table, or Null
  description,           \* useState: description table, or Null (App.tsx only)
  results,               \* the array the processedData callback returned
  processedData,         \* useMemo results of the last render ...
  stats,
  shapiro,
  mainTest,
  cohens,
  emotionAnalysis,
  subjectiveStats,
  chiSquareResult,
  spearmanCorrelations,
  phase,                 \* "loading", "loaded", "rendered", or the hook that threw
  seriesA,               \* first argument of a statistical primitive called on its own
  seriesB,               \* second argument of that call
  testResult             \* what the primitive returned, or NotComputed

tables == << rawGrouped, aggregated, wilcoxonPerEmotion, subjective, spearman,
             description >>

memos == << results, processedData, stats, shapiro, mainTest, cohens, emotionAnalysis,
            subjectiveStats, chiSquareResult, spearmanCorrelations >>

primitiveCall == << seriesA, seriesB, testResult >>

vars == << variant, loads, setCalls, tables, memos, phase, primitiveCall >>

(***************************************************************************)
(* JavaScript values                                                       *)
(***************************************************************************)
Null == [k |-> "null"]
Undef == [k |-> "undef"]
NaN == [k |-> "nan"]
Inf(s) == [k |-> "inf", s |-> s]
\* The value of a memo no render has computed.
NotComputed == [k |-> "notComputed"]

Abs(i) == IF i < 0 THEN -i ELSE i

Sign(i) == IF i < 0 THEN -1 ELSE IF i > 0 THEN 1 ELSE 0

RECURSIVE GCD(_, _)
GCD(a, b) == IF b = 0 THEN a ELSE GCD(b, a % b)

\* The rational n/d (d # 0) in lowest terms with a positive denominator.
Rat(n, d) ==
  LET g == GCD(Abs(n), Abs(d))
      s == IF d < 0 THEN -1 ELSE 1
  IN [k |-> "rat", n |-> s * (n \div g), d |-> Abs(d) \div g]

Num(i) == [k |-> "rat", n |-> i, d |-> 1]

IsRat(x) == x.k = "rat"
IsNaN(x) == x.k = "nan"
\* Number(x) coercion of the operands of an arithmetic operator: undefined
\* becomes NaN, null becomes 0.
ToNumber(x) ==
  CASE x.k = "undef" -> NaN
    [] x.k = "null" -> Num(0)
    [] x.k = "str" -> NaN
    [] OTHER -> x

\* parseFloat(x): a number cell parses back to itself, a label or a missing
\* value to NaN.
ParseFloat(x) == IF x.k \in {"undef", "null", "str"} THEN NaN ELSE x

SignOf(x) ==
  IF x.k = "rat" THEN Sign(x.n) ELSE x.s

Neg(x0) ==
  LET x == ToNumber(x0)
  IN CASE x.k = "rat" -> [x EXCEPT !.n = -x.n]
       [] x.k = "inf" -> Inf(-x.s)
       [] x.k = "surd" -> [x EXCEPT !.s = -x.s]
       [] OTHER -> NaN

\* x + y for operands already coerced to numbers.
AddNumbers(x, y) ==
  CASE x.k = "nan" \/ y.k = "nan" -> NaN
    [] x.k = "inf" /\ y.k = "inf" -> IF x.s = y.s THEN x ELSE NaN
    [] x.k = "inf" -> x
    [] y.k = "inf" -> y
    [] x.k = "rat" /\ y.k = "rat" ->
         LET g == GCD(x.d, y.d)
         IN Rat(x.n * (y.d \div g) + y.n * (x.d \div g), (x.d \div g) * y.d)

\* x + y
Add(x0, y0) == AddNumbers(ToNumber(x0), ToNumber(y0))

Sub(x, y) == Add(x, Neg(y))

\* (a/b) * (c/d) for b, d > 0, cancelling across before multiplying.
MulFrac(a, b, c, d) ==
  IF a = 0 \/ c = 0 THEN Num(0)
  ELSE LET g1 == GCD(Abs(a), d)
           g2 == GCD(Abs(c), b)
       IN Rat((a \div g1) * (c \div g2), (b \div g2) * (d \div g1))

\* The integer square root of i >= 0 by bisection of lo..hi.
RECURSIVE ISqrtIn(_, _, _)
ISqrtIn(i, lo, hi) ==
  IF lo >= hi THEN lo
  ELSE LET mid == (lo + hi + 1) \div 2
       IN IF mid <= i \div mid THEN ISqrtIn(i, mid, hi) ELSE ISqrtIn(i, lo, mid - 1)

ISqrt(i) == IF i = 0 THEN 0 ELSE ISqrtIn(i, 1, IF i < 46340 THEN i ELSE 46340)

\* s * sqrt(q) given the integer square roots rn, rd of q.n and q.d.
RootFrom(s, q, rn, rd) ==
  IF rn * rn = q.n /\ rd * rd = q.d
  THEN Rat(s * rn, rd)
  ELSE [k |-> "surd", s |-> s, n |-> q.n, d |-> q.d]

\* s * sqrt(n/d) for s in {-1, 1} and a rational n/d > 0: a rational when n/d
\* is a perfect square, otherwise a surd.
Root(s, q) == RootFrom(s, q, ISqrt(q.n), ISqrt(q.d))

\* The square of a rational or surd, as a rational.
SquareOf(x) ==
  IF x.k = "rat" THEN Rat(x.n * x.n, x.d * x.d) ELSE Rat(x.n, x.d)

IsZero(x) == x.k = "rat" /\ x.n = 0

\* The root with sign s of the product (or quotient) of two squares sx, sy.
RootOfProduct(s, sx, sy) == Root(s, MulFrac(sx.n, sx.d, sy.n, sy.d))
RootOfQuotient(s, sx, sy) == Root(s, MulFrac(sx.n, sx.d, sy.d, sy.n))

\* x * y for operands already coerced to numbers.
MulNumbers(x, y) ==
  CASE x.k = "nan" \/ y.k = "nan" -> NaN
    [] x.k = "inf" \/ y.k = "inf" ->
         IF IsZero(x) \/ IsZero(y) THEN NaN ELSE Inf(SignOf(x) * SignOf(y))
    [] x.k = "rat" /\ y.k = "rat" -> MulFrac(x.n, x.d, y.n, y.d)
    [] OTHER ->
         IF IsZero(x) \/ IsZero(y) THEN Num(0)
         ELSE RootOfProduct(SignOf(x) * SignOf(y), SquareOf(x), SquareOf(y))

\* x * y
Mul(x0, y0) == MulNumbers(ToNumber(x0), ToNumber(y0))

\* x / y for operands already coerced to numbers, with IEEE results for a zero
\* or infinite operand (the sign of a zero is not tracked: x / 0 has the sign
\* of x).
DivNumbers(x, y) ==
  CASE x.k = "nan" \/ y.k = "nan" -> NaN
    [] x.k = "inf" -> IF y.k = "inf" THEN NaN
                      ELSE Inf(x.s * (IF IsZero(y) THEN 1 ELSE SignOf(y)))
    [] y.k = "inf" -> Num(0)
    [] IsZero(y) -> IF IsZero(x) THEN NaN ELSE Inf(SignOf(x))
    [] x.k = "rat" /\ y.k = "rat" ->
         MulFrac(Sign(y.n) * x.n, x.d, y.d, Abs(y.n))
    [] OTHER ->
         IF IsZero(x) THEN Num(0)
         ELSE RootOfQuotient(SignOf(x) * SignOf(y), SquareOf(x), SquareOf(y))

\* x / y
Div(x0, y0) == DivNumbers(ToNumber(x0), ToNumber(y0))

\* Math.sqrt of a number.
SqrtNumber(x) ==
  CASE x.k = "nan" -> NaN
    [] x.k = "inf" -> IF x.s > 0 THEN x ELSE NaN
    [] x.k = "rat" -> IF x.n < 0 THEN NaN
                      ELSE IF x.n = 0 THEN Num(0) ELSE Root(1, x)

\* Math.sqrt
Sqrt(x0) == SqrtNumber(ToNumber(x0))

\* Math.abs
MathAbs(x0) ==
  LET x == ToNumber(x0)
  IN CASE x.k = "rat" -> [x EXCEPT !.n = Abs(x.n)]
       [] x.k = "inf" -> Inf(1)
       [] x.k = "surd" -> [x EXCEPT !.s = 1]
       [] OTHER -> NaN

\* x > y on rationals and infinities; false when either side is NaN.
GT(x0, y0) ==
  LET x == ToNumber(x0)
      y == ToNumber(y0)
  IN CASE x.k = "nan" \/ y.k = "nan" -> FALSE
       [] x.k = "inf" -> x.s > 0 /\ ~(y.k = "inf" /\ y.s > 0)
       [] y.k = "inf" -> y.s < 0
       [] x.k = "rat" /\ y.k = "rat" -> x.n * y.d > y.n * x.d


\* A variant of LE with < in place of <=.
StrictlyBelow(x0, y0) == GT(y0, x0)

\* x <= y; false when either side is NaN.
LE(x0, y0) ==
  LET x == ToNumber(x0)
      y == ToNumber(y0)
  IN x.k # "nan" /\ y.k # "nan" /\ ~GT(x, y)

\* The value is a finite or infinite number, not NaN and not undefined.
Defined(x) == x.k \in {"rat", "inf", "surd"}

(***************************************************************************)
(* Naturals beyond the machine integer: little-endian sequences of limbs   *)
(* in base 1000, used where a product of model integers would overflow.    *)
(***************************************************************************)
LimbBase == 10 * 10 * 10

RECURSIVE BigOf(_)
BigOf(i) == IF i = 0 THEN << >> ELSE << i % LimbBase >> \o BigOf(i \div LimbBase)

RECURSIVE BigAddCarry(_, _, _)
BigAddCarry(a, b, carry) ==
  IF a = << >> /\ b = << >>
  THEN IF carry = 0 THEN << >> ELSE << carry >>
  ELSE LET x == IF a = << >> THEN 0 ELSE Head(a)
           y == IF b = << >> THEN 0 ELSE Head(b)
           t == x + y + carry
       IN << t % LimbBase >>
          \o BigAddCarry(IF a = << >> THEN a ELSE Tail(a),
                         IF b = << >> THEN b ELSE Tail(b), t \div LimbBase)

BigAdd(a, b) == BigAddCarry(a, b, 0)

RECURSIVE BigMulLimb(_, _, _)
BigMulLimb(a, l, carry) ==
  IF a = << >> THEN BigOf(carry)
  ELSE LET t == Head(a) * l + carry
       IN << t % LimbBase >> \o BigMulLimb(Tail(a), l, t \div LimbBase)

RECURSIVE BigMul(_, _)
BigMul(a, b) ==
  IF a = << >> \/ b = << >> THEN << >>
  ELSE LET rest == BigMul(a, Tail(b))
           low == IF Head(b) = 0 THEN << >> ELSE BigMulLimb(a, Head(b), 0)
       IN BigAdd(low, IF rest = << >> THEN rest ELSE << 0 >> \o rest)

\* a > b for limb sequences without leading zero limbs.
RECURSIVE BigGT(_, _)
BigGT(a, b) ==
  IF Len(a) # Len(b) THEN Len(a) > Len(b)
  ELSE IF a = << >> THEN FALSE
  ELSE IF a[Len(a)] # b[Len(b)] THEN a[Len(a)] > b[Len(b)]
  ELSE BigGT(SubSeq(a, 1, Len(a) - 1), SubSeq(b, 1, Len(b) - 1))

\* The product of a sequence of naturals.
RECURSIVE BigProduct(_)
BigProduct(factors) ==
  IF factors = << >> THEN << 1 >>
  ELSE BigMul(BigOf(Head(factors)), BigProduct(Tail(factors)))

\* product(as) > product(bs), for sequences of naturals.
ProductGT(as, bs) == BigGT(BigProduct(as), BigProduct(bs))

(***************************************************************************)
(* Tables: a table is a sequence of rows, a row a function from column     *)
(* names to cells.  A cell is a number or a string [k |-> "str", s].       *)
(***************************************************************************)
Str(s) == [k |-> "str", s |-> s]

\* A loaded table (a non-empty array of rows); an absent one is Null.
Table(rows) == [k |-> "table", rows |-> rows]

\* r[col]: undefined when the row has no such column.
Get(r, col) == IF col \in DOMAIN r THEN r[col] ELSE Undef

\* x ?? y
Nullish(x, y) == IF x.k \in {"undef", "null"} THEN y ELSE x

\* JavaScript truthiness of a cell.
Truthy(x) ==
  CASE x.k = "str" -> x.s # ""
    [] x.k = "rat" -> x.n # 0
    [] x.k \in {"inf", "surd"} -> TRUE
    [] OTHER -> FALSE

\* x || y
OrElse(x, y) == IF Truthy(x) THEN x ELSE y

Categories ==
  << "angry", "disgusted", "fearful", "happy", "neutral", "sad", "surprised" >>

CategorySet == {Categories[i] : i \in 1..Len(Categories)}

\* The spellings of each category's column, by header style: the three aliases
\* getCol is given (secnorm, norm, lower), their lower-case and upper-case
\* forms, and the raw-seconds columns.
ColumnOf ==
  [ secnorm |-> [ angry |-> "Angry (seconds)_norm", disgusted |-> "Disgusted (seconds)_norm", fearful |-> "Fearful (seconds)_norm", happy |-> "Happy (seconds)_norm", neutral |-> "Neutral (seconds)_norm", sad |-> "Sad (seconds)_norm", surprised |-> "Surprised (seconds)_norm" ],
    norm |-> [ angry |-> "Angry_norm", disgusted |-> "Disgusted_norm", fearful |-> "Fearful_norm", happy |-> "Happy_norm", neutral |-> "Neutral_norm", sad |-> "Sad_norm", surprised |-> "Surprised_norm" ],
    lower |-> [ angry |-> "angry", disgusted |-> "disgusted", fearful |-> "fearful", happy |-> "happy", neutral |-> "neutral", sad |-> "sad", surprised |-> "surprised" ],
    secnormLower |-> [ angry |-> "angry (seconds)_norm", disgusted |-> "disgusted (seconds)_norm", fearful |-> "fearful (seconds)_norm", happy |-> "happy (seconds)_norm", neutral |-> "neutral (seconds)_norm", sad |-> "sad (seconds)_norm", surprised |-> "surprised (seconds)_norm" ],
    normLower |-> [ angry |-> "angry_norm", disgusted |-> "disgusted_norm", fearful |-> "fearful_norm", happy |-> "happy_norm", neutral |-> "neutral_norm", sad |-> "sad_norm", surprised |-> "surprised_norm" ],
    normUpper |-> [ angry |-> "ANGRY_NORM", disgusted |-> "DISGUSTED_NORM", fearful |-> "FEARFUL_NORM", happy |-> "HAPPY_NORM", neutral |-> "NEUTRAL_NORM", sad |-> "SAD_NORM", surprised |-> "SURPRISED_NORM" ],
    raw |-> [ angry |-> "Angry", disgusted |-> "Disgusted", fearful |-> "Fearful", happy |-> "Happy", neutral |-> "Neutral", sad |-> "Sad", surprised |-> "Surprised" ] ]

LowerTable ==
  ("Angry (seconds)_norm" :> "angry (seconds)_norm") @@
  ("Disgusted (seconds)_norm" :> "disgusted (seconds)_norm") @@
  ("Fearful (seconds)_norm" :> "fearful (seconds)_norm") @@
  ("Happy (seconds)_norm" :> "happy (seconds)_norm") @@
  ("Neutral (seconds)_norm" :> "neutral (seconds)_norm") @@
  ("Sad (seconds)_norm" :> "sad (seconds)_norm") @@
  ("Surprised (seconds)_norm" :> "surprised (seconds)_norm") @@
  ("Angry_norm" :> "angry_norm") @@
  ("Disgusted_norm" :> "disgusted_norm") @@
  ("Fearful_norm" :> "fearful_norm") @@
  ("Happy_norm" :> "happy_norm") @@
  ("Neutral_norm" :> "neutral_norm") @@
  ("Sad_norm" :> "sad_norm") @@
  ("Surprised_norm" :> "surprised_norm") @@
  ("ANGRY_NORM" :> "angry_norm") @@
  ("DISGUSTED_NORM" :> "disgusted_norm") @@
  ("FEARFUL_NORM" :> "fearful_norm") @@
  ("HAPPY_NORM" :> "happy_norm") @@
  ("NEUTRAL_NORM" :> "neutral_norm") @@
  ("SAD_NORM" :> "sad_norm") @@
  ("SURPRISED_NORM" :> "surprised_norm") @@
  ("Angry" :> "angry") @@
  ("Disgusted" :> "disgusted") @@
  ("Fearful" :> "fearful") @@
  ("Happy" :> "happy") @@
  ("Neutral" :> "neutral") @@
  ("Sad" :> "sad") @@
  ("Surprised" :> "surprised") @@
  ("Participant" :> "participant") @@
  ("Condition" :> "condition")

ToLowerCase(s) == IF s \in DOMAIN LowerTable THEN LowerTable[s] ELSE s

\* The alias list handed to getCol for a category.
Aliases(cat) ==
  << ColumnOf.secnorm[cat], ColumnOf.norm[cat], ColumnOf.lower[cat] >>

NormalizedKey(c) ==
  CASE c = "C1" -> "C1_normalized"
    [] c = "C2" -> "C2_normalized"
    [] OTHER -> "other_normalized"

ScaleFactorKey(c) ==
  CASE c = "C1" -> "C1_scaleFactor"
    [] c = "C2" -> "C2_scaleFactor"
    [] OTHER -> "other_scaleFactor"

TotalSumKey(c) ==
  CASE c = "C1" -> "C1_totalSum"
    [] c = "C2" -> "C2_totalSum"
    [] OTHER -> "other_totalSum"

\* The fixed time budget of a trial window, in seconds.
TimeBudget == 120

\* A variant of Dedup that keeps every element, repeated or not.
KeepRepeats(seq) == seq

\* Array.from(new Set(seq)): the distinct elements in encounter order.
RECURSIVE Dedup(_)
Dedup(seq) ==
  IF seq = << >> THEN << >>
  ELSE LET init == Dedup(SubSeq(seq, 1, Len(seq) - 1))
           last == seq[Len(seq)]
       IN IF \E i \in 1..Len(init) : init[i] = last THEN init
          ELSE Append(init, last)

ParticipantOf(r) == OrElse(Get(r, "Participant"), Get(r, "participant"))

ConditionOf(r) == OrElse(Get(r, "Condition"), Get(r, "condition"))

\* rows.reduce((s, r) => s + (r[col] ?? r[col.toLowerCase()] ?? 0), 0)
RECURSIVE SumColumn(_, _)
SumColumn(rows, col) ==
  IF rows = << >> THEN Num(0)
  ELSE Add(SumColumn(SubSeq(rows, 1, Len(rows) - 1), col),
           Nullish(Get(rows[Len(rows)], col),
                   Nullish(Get(rows[Len(rows)], ToLowerCase(col)), Num(0))))

avg(rows, col) == Div(SumColumn(rows, col), Num(Len(rows)))

\* getCol: the first alias, or its lower-case form, that is a column of the
\* group's first row; the first alias when none is.
RECURSIVE getColFrom(_, _, _)
getColFrom(rows, names, i) ==
  IF i > Len(names) THEN names[1]
  ELSE IF names[i] \in DOMAIN rows[1] THEN names[i]
  ELSE IF ToLowerCase(names[i]) \in DOMAIN rows[1] THEN ToLowerCase(names[i])
  ELSE getColFrom(rows, names, i + 1)

getCol(rows, names) == getColFrom(rows, names, 1)

ZeroNormalized == [cat \in CategorySet |-> Num(0)]

\* normalized.angry + normalized.disgusted + ... + normalized.surprised
\* (every category but neutral), then / 120 * 100.
nonNeutralSeconds(normalized) ==
  Add(Add(Add(Add(Add(normalized["angry"], normalized["disgusted"]),
                  normalized["fearful"]), normalized["happy"]),
          normalized["sad"]), normalized["surprised"])

nonNeutralPercent(normalized) ==
  Mul(Div(nonNeutralSeconds(normalized), Num(TimeBudget)), Num(100))

\* row[`${c}_normalized`] = normalized; row[c] = nonNeutral / 120 * 100
GroupOf(c, normalized) ==
  (NormalizedKey(c) :> normalized) @@ (c :> nonNeutralPercent(normalized))

\* The branch that reads *_norm columns through getCol.
NormColumnsGroup(rows, c) ==
  GroupOf(c, [cat \in CategorySet |-> avg(rows, getCol(rows, Aliases(cat)))])

hasNorm(rows) ==
  \/ "Angry (seconds)_norm" \in DOMAIN rows[1]
  \/ "Angry_norm" \in DOMAIN rows[1]
  \/ "angry" \in DOMAIN rows[1]

\* avg('Angry') || avg('angry') || 0
RawAverage(rows, cat) ==
  OrElse(avg(rows, ColumnOf.raw[cat]), OrElse(avg(rows, ColumnOf.lower[cat]), Num(0)))

\* angry + disgusted + fearful + happy + neutral + sad + surprised
TotalSeconds(means) ==
  Add(Add(Add(Add(Add(Add(means["angry"], means["disgusted"]),
      means["fearful"]), means["happy"]), means["neutral"]),
      means["sad"]), means["surprised"])

\* total > 0 ? 120 / total : 1
ScaleFactor(total) ==
  IF GT(total, Num(0)) THEN Div(Num(TimeBudget), total) ELSE Num(1)

\* The rescaled means of a group with its scale factor and total.
ScaledGroup(c, means, scale, total) ==
  GroupOf(c, [cat \in CategorySet |-> Mul(means[cat], scale)])
  @@ (ScaleFactorKey(c) :> scale) @@ (TotalSumKey(c) :> total)

RescaledGroup(c, means, total) == ScaledGroup(c, means, ScaleFactor(total), total)

\* The branch of App.tsx that reads raw-seconds columns and rescales them to
\* the time budget.
RawColumnsGroup(rows, c) ==
  LET means == [cat \in CategorySet |-> RawAverage(rows, cat)]
  IN RescaledGroup(c, means, TotalSeconds(means))

\* The fields one condition contributes to a participant's record.
GroupFields(v, raw, p, c) ==
  LET rows == SelectSeq(raw, LAMBDA r : ParticipantOf(r) = p /\ ConditionOf(r) = c)
  IN IF rows = << >>
     THEN (c.s :> Num(0)) @@ (NormalizedKey(c.s) :> ZeroNormalized)
          @@ (IF v = "App"
              THEN (ScaleFactorKey(c.s) :> Num(1)) @@ (TotalSumKey(c.s) :> Num(0))
              ELSE << >>)
     ELSE IF v = "App"
          THEN IF hasNorm(rows) THEN NormColumnsGroup(rows, c.s)
               ELSE RawColumnsGroup(rows, c.s)
          ELSE NormColumnsGroup(rows, c.s)

\* conditions.forEach(c => ...): later assignments win.
RECURSIVE ConditionFields(_, _, _, _, _)
ConditionFields(v, raw, p, conditions, i) ==
  IF i = 0 THEN << >>
  ELSE GroupFields(v, raw, p, conditions[i])
       @@ ConditionFields(v, raw, p, conditions, i - 1)

\* A variant of WithDelta without the ?? 0 defaults.
WithDeltaUndefaulted(row) ==
  ("delta" :> Sub(Get(row, "C1"), Get(row, "C2"))) @@ row

\* row.delta = (row['C1'] ?? 0) - (row['C2'] ?? 0)
WithDelta(row) ==
  ("delta" :> Sub(Nullish(Get(row, "C1"), Num(0)),
                  Nullish(Get(row, "C2"), Num(0)))) @@ row

ParticipantRow(v, raw, p, conditions) ==
  WithDelta(ConditionFields(v, raw, p, conditions, Len(conditions))
            @@ ("participant" :> p))

\* The processedData memo of source file v ("App": src/src/App.tsx, "part":
\* src/unnamed/part_000).
processedDataOf(v, rawTable) ==
  IF rawTable = Null THEN << >>
  ELSE LET raw == rawTable.rows
           participants == Dedup([i \in 1..Len(raw) |-> ParticipantOf(raw[i])])
           conditions == Dedup([i \in 1..Len(raw) |-> ConditionOf(raw[i])])
       IN [i \in 1..Len(participants) |->
             ParticipantRow(v, raw, participants[i], conditions)]

(***************************************************************************)
(* Statistical primitives                                                  *)
(***************************************************************************)
RECURSIVE SumSeq(_)
SumSeq(arr) ==
  IF arr = << >> THEN Num(0)
  ELSE Add(SumSeq(SubSeq(arr, 1, Len(arr) - 1)), arr[Len(arr)])

\* arr.reduce((s, v) => s + v, 0) / arr.length
mean(arr) == Div(SumSeq(arr), Num(Len(arr)))

\* x ** 2
Square(x) == Mul(x, x)

\* arr.reduce((s, v) => s + (v - m) ** 2, 0)
SumSquaredDeviations(arr, m) ==
  SumSeq([i \in 1..Len(arr) |-> Square(Sub(arr[i], m))])

\* Bessel-corrected standard deviation; NaN for a series of length 1 (0/0).
std(arr) ==
  Sqrt(Div(SumSquaredDeviations(arr, mean(arr)), Num(Len(arr) - 1)))

\* Math.min(...arr) and Math.max(...arr): NaN when an element is not a number.
RECURSIVE Extreme(_, _)
Extreme(arr, dir) ==
  IF arr = << >> THEN Inf(-dir)
  ELSE LET rest == Extreme(SubSeq(arr, 1, Len(arr) - 1), dir)
           last == ToNumber(arr[Len(arr)])
       IN IF IsNaN(rest) \/ IsNaN(last) THEN NaN
          ELSE IF dir > 0 THEN (IF GT(last, rest) THEN last ELSE rest)
          ELSE (IF GT(rest, last) THEN last ELSE rest)

MathMin(arr) == Extreme(arr, -1)
MathMax(arr) == Extreme(arr, 1)

\* [...data].sort((a, b) => a - b)
SortAscending(data) == SortSeq(data, LAMBDA a, b : GT(b, a))

\* The Shapiro-Wilk coefficients 0.5739, 0.3291, 0.2141, 0.1224, 0.0399.
ShapiroCoefficients ==
  << Rat(5739, 10000), Rat(3291, 10000), Rat(2141, 10000), Rat(1224, 10000),
     Rat(399, 10000) >>

MinInt(a, b) == IF a < b THEN a ELSE b

\* The number of symmetric order-statistic pairs: Math.min(5, Math.floor(n / 2)).
ShapiroPairs(n) == MinInt(5, n \div 2)

RECURSIVE ShapiroNumerator(_, _)
ShapiroNumerator(sorted, i) ==
  IF i = 0 THEN Num(0)
  ELSE Add(ShapiroNumerator(sorted, i - 1),
           Mul(ShapiroCoefficients[i],
               Sub(sorted[Len(sorted) + 1 - i], sorted[i])))

\* (numerator / Math.sqrt(ss)) ** 2 = numerator^2 / ss, kept as a quotient of
\* two big naturals [k |-> "big", n, d]; NaN when ss = 0 (0 / 0).
SquaredRatio(numerator, ss) ==
  IF ~(IsRat(numerator) /\ IsRat(ss)) THEN NaN
  ELSE IF ss.n = 0 THEN (IF numerator.n = 0 THEN NaN ELSE Inf(1))
  ELSE [k |-> "big",
        n |-> BigProduct(<< Abs(numerator.n), Abs(numerator.n), ss.d >>),
        d |-> BigProduct(<< numerator.d, numerator.d, ss.n >>)]

\* w > c for a squared ratio w and a rational c >= 0.
RatioGT(w, c) ==
  CASE w.k = "big" -> BigGT(BigMul(w.n, BigOf(c.d)), BigMul(w.d, BigOf(c.n)))
    [] w.k = "inf" -> w.s > 0
    [] OTHER -> FALSE

\* A variant of ShapiroP without the step at 0.90.
ShapiroPWithoutStep(W) ==
  IF RatioGT(W, Rat(95, 100)) THEN Rat(7, 10)
  ELSE IF RatioGT(W, Rat(85, 100)) THEN Rat(5, 100)
  ELSE Rat(1, 100)

\* The step function from W to the approximate p-value.
ShapiroP(W) ==
  IF RatioGT(W, Rat(95, 100)) THEN Rat(7, 10)
  ELSE IF RatioGT(W, Rat(90, 100)) THEN Rat(2, 10)
  ELSE IF RatioGT(W, Rat(85, 100)) THEN Rat(5, 100)
  ELSE Rat(1, 100)

\* return { W, p }
ShapiroResult(W) == [W |-> W, p |-> ShapiroP(W)]

shapiroWilkTest(data) ==
  LET n == Len(data)
      sorted == SortAscending(data)
      numerator == ShapiroNumerator(sorted, ShapiroPairs(n))
  IN ShapiroResult(SquaredRatio(numerator,
                                SumSquaredDeviations(data, mean(data))))

\* 2 * (1 - normalCDF(x)) for x = Math.abs(...): NaN for NaN, 0 for Infinity
\* (normalCDF(Infinity) = 1), and for a finite x the value
\* [k |-> "tail", x, m] = m * 2 * (1 - normalCDF(x)) with m = 1; the polynomial
\* and the exponential of normalCDF are not evaluated, the value is compared
\* through the critical arguments below.
TwoTailedP(x) ==
  CASE x.k = "nan" -> NaN
    [] x.k = "inf" -> Num(0)
    [] OTHER -> [k |-> "tail", x |-> x, m |-> 1]

\* a[i] - b[i] for every index of a.
Differences(a, b) ==
  [i \in 1..Len(a) |-> Sub(a[i], IF i <= Len(b) THEN b[i] ELSE Undef)]

\* The t, df and p of pairedTTest from n, meanDiff and sdDiff.
PairedTTestResult(n, meanDiff, sdDiff, t) ==
  [t |-> t, df |-> Num(n - 1),
   p |-> TwoTailedP(Mul(MathAbs(t), Sqrt(Div(Num(n), Num(n - 1))))),
   meanDiff |-> meanDiff, sdDiff |-> sdDiff]

PairedTTestFrom(n, meanDiff, sdDiff) ==
  PairedTTestResult(n, meanDiff, sdDiff,
                    Div(meanDiff, Div(sdDiff, Sqrt(Num(n)))))

pairedTTest(a, b) ==
  LET diffs == Differences(a, b)
      n == Len(diffs)
  IN PairedTTestFrom(n, mean(diffs),
       Sqrt(Div(SumSquaredDeviations(diffs, mean(diffs)), Num(n - 1))))

\* Cohen's d for paired samples: the mean difference over the population
\* (uncorrected) standard deviation of the differences.
cohensD(a, b) ==
  LET diffs == Differences(a, b)
  IN Div(mean(diffs),
         Sqrt(Div(SumSquaredDeviations(diffs, mean(diffs)), Num(Len(diffs)))))

\* A variant of ExceedsEpsilon that keeps the zero differences.
KeepsZeroDifferences(d) == d.k \in {"rat", "inf", "surd"}

\* Math.abs(d) > 1e-10.  Every model rational has a denominator below 2^31,
\* so a non-zero one exceeds 1e-10 in absolute value.
ExceedsEpsilon(d) ==
  CASE d.k = "rat" -> d.n # 0
    [] d.k \in {"inf", "surd"} -> TRUE
    [] OTHER -> FALSE

\* Math.abs(x - y) < 1e-10
WithinEpsilon(x, y) == LET dv == Sub(x, y) IN dv.k = "rat" /\ dv.n = 0

\* The index just past the run of items tied with items[i], scanning from j.
RECURSIVE TieEnd(_, _, _)
TieEnd(items, i, j) ==
  IF j <= Len(items) /\ WithinEpsilon(items[j].val, items[i].val)
  THEN TieEnd(items, i, j + 1) ELSE j

\* for (let k = i; k < j; k++) items[k].rank = avgRank
SetRanks(items, i, j, avgRank) ==
  [k \in 1..Len(items) |->
     IF k >= i /\ k < j THEN [items[k] EXCEPT !.rank = avgRank] ELSE items[k]]

RECURSIVE AssignRanks(_, _, _)
\* A variant of AssignRun that gives a run of ties its first rank.
AssignRunFirstRank(items, i, j, rank) ==
  AssignRanks(SetRanks(items, i, j, Num(rank)), j, rank + (j - i))

\* One pass of the rank-assignment loop over the run of ties i..j-1, then the
\* rest of the loop.
AssignRun(items, i, j, rank) ==
  AssignRanks(SetRanks(items, i, j,
                       Div(Num(rank + (rank + (j - i) - 1)), Num(2))),
              j, rank + (j - i))

\* The rank-assignment loop: each run of tied values gets the average of the
\* ranks it occupies.
AssignRanks(items, i, rank) ==
  IF i > Len(items) THEN items
  ELSE AssignRun(items, i, TieEnd(items, i, i), rank)

\* items: the absolute non-zero differences with their signs, sorted by value
\* and ranked.
RankedItems(nonZero) ==
  LET items == [idx \in 1..Len(nonZero) |->
                  [val |-> MathAbs(nonZero[idx]),
                   sign |-> IF GT(nonZero[idx], Num(0)) THEN 1 ELSE -1,
                   idx |-> idx, rank |-> Num(0)]]
  IN AssignRanks(SortSeq(items, LAMBDA x, y : GT(y.val, x.val)), 1, 1)

\* A variant of PositiveRankSum that sums the ranks of every item.
AllRankSum(items) == SumSeq([k \in 1..Len(items) |-> items[k].rank])

\* items.filter(it => it.sign > 0).reduce((s, it) => s + it.rank, 0)
PositiveRankSum(items) ==
  LET positive == SelectSeq(items, LAMBDA it : it.sign > 0)
  IN SumSeq([k \in 1..Len(positive) |-> positive[k].rank])

\* return { W: wPlus, z, p, n }
WilcoxonResult(n, wPlus, z) ==
  [W |-> wPlus, z |-> z, p |-> TwoTailedP(MathAbs(z)), n |-> Num(n)]

\* The statistics of the test from n and W+.
WilcoxonFrom(n, wPlus) ==
  LET expectedW == Rat(n * (n + 1), 4)
      varW == Rat(n * (n + 1) * (2 * n + 1), 24)
      correction == Rat(1, 2)
  IN WilcoxonResult(n, wPlus,
       Div(Sub(Sub(wPlus, expectedW),
               IF GT(wPlus, expectedW) THEN correction ELSE Neg(correction)),
           Sqrt(varW)))

wilcoxonSignedRank(a, b) ==
  LET nonZero == SelectSeq(Differences(a, b), ExceedsEpsilon)
      n == Len(nonZero)
  IN IF n = 0 THEN [W |-> Num(0), z |-> Num(0), p |-> Num(1), n |-> Num(0)]
     ELSE WilcoxonFrom(n, PositiveRankSum(RankedItems(nonZero)))

\* A variant of ranks that leaves the values as they are.
ValuesAsRanks(arr) == arr

\* ranks(arr): the 1-based position of each element in the stably sorted
\* array; tied values get consecutive ranks in input order.
ranks(arr) ==
  [i \in 1..Len(arr) |->
     Num(1 + Cardinality({j \in 1..Len(arr) :
                            \/ GT(arr[i], arr[j])
                            \/ (j < i /\ ~GT(arr[j], arr[i]) /\ ~GT(arr[i], arr[j]))}))]

spearmanCorrelation(x, y) ==
  LET rx == ranks(x)
      ry == ranks(y)
      meanRx == mean(rx)
      meanRy == mean(ry)
      cov == SumSeq([i \in 1..Len(rx) |->
                       Mul(Sub(rx[i], meanRx),
                           Sub(IF i <= Len(ry) THEN ry[i] ELSE Undef, meanRy))])
      varx == SumSquaredDeviations(rx, meanRx)
      vary == SumSquaredDeviations(ry, meanRy)
  IN Div(cov, Sqrt(Mul(varx, vary)))

\* The chi-square sum over the indices with expected > 0.
RECURSIVE ChiSquareSum(_, _, _)
ChiSquareSum(observed, expected, i) ==
  IF i = 0 THEN Num(0)
  ELSE LET rest == ChiSquareSum(observed, expected, i - 1)
       IN IF LE(expected[i], Num(0)) THEN rest
          ELSE Add(rest, Div(Square(Sub(observed[i], expected[i])), expected[i]))

\* A variant of ChiSquareP whose steps include their thresholds.
ChiSquarePInclusive(chiSq) ==
  IF ~LE(Rat(921, 100), chiSq) THEN
    (IF ~LE(Rat(599, 100), chiSq) THEN
       (IF ~LE(Rat(461, 100), chiSq) THEN Rat(2, 10) ELSE Rat(1, 10))
     ELSE Rat(5, 100))
  ELSE Rat(1, 100)

\* The step function from the statistic to the approximate p-value.
ChiSquareP(chiSq) ==
  IF GT(chiSq, Rat(921, 100)) THEN Rat(1, 100)
  ELSE IF GT(chiSq, Rat(599, 100)) THEN Rat(5, 100)
  ELSE IF GT(chiSq, Rat(461, 100)) THEN Rat(1, 10)
  ELSE Rat(2, 10)

\* return { chiSq, df, p }
ChiSquareResult(chiSq, df) ==
  [chiSq |-> chiSq, df |-> Num(df), p |-> ChiSquareP(chiSq)]

chiSquareTest(observed, expected) ==
  ChiSquareResult(ChiSquareSum(observed, expected, Len(observed)),
                  Len(observed) - 1)

(***************************************************************************)
(* The memo hooks of App (the analysis orchestrator)                       *)
(***************************************************************************)
\* arr.map(r => r[field])
Column(rows, field) == [i \in 1..Len(rows) |-> Get(rows[i], field)]

\* s.includes(sub), for the condition labels of the summary table.
StringIncludes(s, sub) ==
  CASE s = "C1" -> sub = "C1"
    [] s = "C2" -> sub = "C2"
    [] s = "C1 (Robot)" -> sub = "C1"
    [] s = "C2 (Computer)" -> sub = "C2"
    [] OTHER -> FALSE

\* (a.Condition || a.condition || '').toString().includes(label)
SummaryRowIs(a, label) ==
  LET c == OrElse(Get(a, "Condition"), OrElse(Get(a, "condition"), Str("")))
  IN c.k = "str" /\ StringIncludes(c.s, label)

\* aggregated.find(pred): the first matching row, or undefined.
FindSummaryRow(agg, label) ==
  IF \E i \in 1..Len(agg) : SummaryRowIs(agg[i], label)
  THEN agg[CHOOSE i \in 1..Len(agg) :
             /\ SummaryRowIs(agg[i], label)
             /\ \A j \in 1..(i - 1) : ~SummaryRowIs(agg[j], label)]
  ELSE Undef

Describe(vals) ==
  [mean |-> mean(vals), std |-> std(vals), min |-> MathMin(vals),
   max |-> MathMax(vals)]

\* The statistics read from the C1 and C2 rows of the summary table.
SummaryMoments(C1mean, C2mean, C1sd, C2sd) ==
  [C1 |-> [mean |-> C1mean, std |-> C1sd, min |-> NaN, max |-> NaN],
   C2 |-> [mean |-> C2mean, std |-> C2sd, min |-> NaN, max |-> NaN],
   Delta |-> [mean |-> Sub(C1mean, C2mean), std |-> NaN, min |-> NaN,
              max |-> NaN]]

SummaryStats(c1, c2) ==
  SummaryMoments(
    ParseFloat(Nullish(Get(c1, "Mean"),
                 Nullish(Get(c1, "mean"), Nullish(Get(c1, "Mean (%)"), Num(0))))),
    ParseFloat(Nullish(Get(c2, "Mean"), Nullish(Get(c2, "mean"), Num(0)))),
    ParseFloat(Nullish(Get(c1, "SD"), Nullish(Get(c1, "sd"), Num(0)))),
    ParseFloat(Nullish(Get(c2, "SD"), Nullish(Get(c2, "sd"), Num(0)))))

\* The C1, C2 and Delta entries of the stats of the records.
StatsFields == {"C1", "C2", "Delta"}

RecordField(f) == IF f = "Delta" THEN "delta" ELSE f

\* The stats memo: the summary table when no record is derivable, otherwise
\* the descriptive statistics of the records; null when there is neither.
SummaryOrNull(c1, c2) ==
  IF c1 # Undef /\ c2 # Undef THEN SummaryStats(c1, c2) ELSE Null

statsOf(rows, agg) ==
  IF rows = << >>
  THEN IF agg = Null THEN Null
       ELSE SummaryOrNull(FindSummaryRow(agg.rows, "C1"),
                          FindSummaryRow(agg.rows, "C2"))
  ELSE [f \in StatsFields |-> Describe(Column(rows, RecordField(f)))]

shapiroOf(rows) ==
  IF rows = << >> THEN Null ELSE shapiroWilkTest(Column(rows, "delta"))

\* A variant of the decision with >= in place of >.
NormalityPassesAtThreshold(sh) == sh # Null /\ ~GT(Rat(5, 100), sh.p)

\* if (shapiro && shapiro.p > 0.05)
NormalityPasses(sh) == sh # Null /\ GT(sh.p, Rat(5, 100))

\* A variant of WilcoxonBranch that divides by the square root of the
\* post-exclusion count.
WilcoxonBranchPostExclusion(w, N) ==
  [type |-> "wilcoxon", effectSize |-> Div(w.z, Sqrt(w.n))] @@ w

\* The mainTest memo: the paired t-test with Cohen's d when the normality
\* check passes, otherwise the Wilcoxon test with r = z / sqrt(N).
\* { type: 'wilcoxon', ...w, effectSize: w.z / Math.sqrt(N) }
WilcoxonBranch(w, N) ==
  [type |-> "wilcoxon", effectSize |-> Div(w.z, Sqrt(Num(N)))] @@ w

mainTestOf(rows, sh) ==
  IF rows = << >> THEN Null
  ELSE LET c1 == Column(rows, "C1")
           c2 == Column(rows, "C2")
       IN IF NormalityPasses(sh)
          THEN [type |-> "t", effectSize |-> cohensD(c1, c2)] @@ pairedTTest(c1, c2)
          ELSE WilcoxonBranch(wilcoxonSignedRank(c1, c2), Len(rows))

cohensOf(rows) ==
  IF rows = << >> THEN Null ELSE cohensD(Column(rows, "C1"), Column(rows, "C2"))

\* The number the per-category p-values are multiplied by.
BonferroniFactor == 6

\* The argument x at which 2 * (1 - normalCDF(x)) falls to 1/6, from the
\* source's polynomial, to six decimals.
CriticalOneSixth == Rat(1382994, 1000000)

\* x > c for a rational or surd x >= 0 and a rational c >= 0, by squares.
MagnitudeGT(x, c) ==
  LET sq == SquareOf(x)
  IN ProductGT(<< sq.n, c.d, c.d >>, << sq.d, c.n, c.n >>)

\* Math.min(p * 6, 1)
MathMinOne(scaled) == IF GT(scaled, Num(1)) THEN Num(1) ELSE scaled

BonferroniNumber(p) ==
  CASE p.k = "nan" -> NaN
    [] p.k = "rat" -> MathMinOne(Mul(p, Num(BonferroniFactor)))
    [] p.k = "tail" ->
         IF MagnitudeGT(p.x, CriticalOneSixth)
         THEN [p EXCEPT !.m = p.m * BonferroniFactor] ELSE Num(1)

Bonferroni(p0) == BonferroniNumber(ToNumber(p0))

Emotions == << "angry", "disgusted", "fearful", "happy", "sad", "surprised" >>

\* r.C1_normalized[em]: reading a property of undefined throws a TypeError.
NormalizedMissing(rows) ==
  \E i \in 1..Len(rows) :
    "C1_normalized" \notin DOMAIN rows[i] \/ "C2_normalized" \notin DOMAIN rows[i]

EmotionResult(em, c1arr, c2arr, w) ==
  [emotion |-> Str(em), c1_mean |-> mean(c1arr), c2_mean |-> mean(c2arr),
   diff_mean |-> mean(Differences(c1arr, c2arr)), W |-> w.W, z |-> w.z,
   p |-> w.p, p_bonferroni |-> Bonferroni(w.p)]

EmotionRow(rows, em) ==
  LET c1arr == [i \in 1..Len(rows) |-> Get(rows[i]["C1_normalized"], em)]
      c2arr == [i \in 1..Len(rows) |-> Get(rows[i]["C2_normalized"], em)]
  IN EmotionResult(em, c1arr, c2arr, wilcoxonSignedRank(c1arr, c2arr))

\* A row of the precomputed per-category table, with its adjusted p.
PrecomputedEmotionRow(r) ==
  [emotion |-> OrElse(Get(r, "emotion"), OrElse(Get(r, "Emotion"), Get(r, "variable"))),
   c1_mean |-> ParseFloat(Nullish(Get(r, "c1_mean"), Nullish(Get(r, "C1_mean"), Num(0)))),
   c2_mean |-> ParseFloat(Nullish(Get(r, "c2_mean"), Nullish(Get(r, "C2_mean"), Num(0)))),
   diff_mean |-> ParseFloat(Nullish(Get(r, "diff_mean"), Nullish(Get(r, "diff"), Num(0)))),
   W |-> ParseFloat(Nullish(Get(r, "W"), Num(0))),
   z |-> ParseFloat(Nullish(Get(r, "z"), Num(0))),
   p |-> ParseFloat(Nullish(Get(r, "p"), Num(1))),
   p_bonferroni |-> Bonferroni(ParseFloat(Nullish(Get(r, "p"), Num(1))))]

\* The emotionAnalysis memo, when NormalizedMissing does not make it throw.
emotionAnalysisOf(wpe, rows) ==
  IF wpe # Null /\ Len(wpe.rows) > 0
  THEN [i \in 1..Len(wpe.rows) |-> PrecomputedEmotionRow(wpe.rows[i])]
  ELSE IF rows = << >> THEN << >>
  ELSE [i \in 1..Len(Emotions) |-> EmotionRow(rows, Emotions[i])]

\* The arguments x at which 6 * 2 * (1 - normalCDF(x)) falls to 0.05 and to
\* 0.01, from the source's polynomial, to six decimals.
CriticalFivePercent == Rat(2638261, 1000000)
CriticalOnePercent == Rat(3144004, 1000000)

\* pb < level, for an adjusted p-value pb.
BelowLevel(pb, level, critical) ==
  CASE pb.k = "rat" -> GT(level, pb)
    [] pb.k = "tail" -> MagnitudeGT(pb.x, critical)
    [] OTHER -> FALSE

\* The significance cell of a row of the per-category table:
\* e.p_bonferroni < 0.01 ? '**' : e.p_bonferroni < 0.05 ? '*' : 'ns'
SignificanceTag(pb) ==
  IF BelowLevel(pb, Rat(1, 100), CriticalOnePercent) THEN "**"
  ELSE IF BelowLevel(pb, Rat(5, 100), CriticalFivePercent) THEN "*"
  ELSE "ns"

\* Number(s[k] ?? s[k.toLowerCase()] ?? 0) down a covariate column.
CovariateColumn(subj, key) ==
  [i \in 1..Len(subj) |->
     ToNumber(Nullish(Get(subj[i], key),
                      Nullish(Get(subj[i], ToLowerCase(key)), Num(0))))]

subjectiveStatsOf(subjTable) ==
  IF subjTable = Null \/ subjTable.rows = << >> THEN Null
  ELSE LET subj == subjTable.rows
           keys == {key \in DOMAIN subj[1] :
                      ToLowerCase(key) # "participant" /\ ToLowerCase(key) # "id"}
       IN [key \in keys |->
             [mean |-> mean(CovariateColumn(subj, key)),
              std |-> std(CovariateColumn(subj, key))]]

\* The fixed observed and expected frequencies of the goodness-of-fit test.
chiSquareResultOf ==
  chiSquareTest(<< Num(6), Num(2), Num(2) >>,
                << Rat(333, 100), Rat(333, 100), Rat(333, 100) >>)

\* The key a row of the precomputed correlation table is stored under.
CorrelationKey(r) ==
  OrElse(Get(r, "variable"), OrElse(Get(r, "Variable"), Get(r, "name")))

\* The spearmanCorrelations memo: the precomputed table when loaded, else one
\* coefficient per covariate column against the delta series.
spearmanCorrelationsOf(spTable, subjTable, rows) ==
  IF spTable # Null /\ Len(spTable.rows) > 0
  THEN LET sp == spTable.rows
       IN [key \in {CorrelationKey(sp[i]).s : i \in 1..Len(sp)} |->
             LET last == CHOOSE i \in 1..Len(sp) :
                           /\ CorrelationKey(sp[i]).s = key
                           /\ \A j \in (i + 1)..Len(sp) : CorrelationKey(sp[j]).s # key
             IN ToNumber(Nullish(Get(sp[last], "rho"),
                                 Nullish(Get(sp[last], "r"), Num(0))))]
  ELSE IF subjTable = Null \/ rows = << >> THEN << >>
  ELSE LET subj == subjTable.rows
           delta == Column(rows, "delta")
           keys == {key \in DOMAIN subj[1] : ToLowerCase(key) # "participant"}
       IN [key \in keys |-> spearmanCorrelation(delta, CovariateColumn(subj, key))]

\* r.C1.toFixed(4) and r.C2.toFixed(4) while the chart data is prepared: a
\* TypeError when a record has no C1 or no C2 field.
ChartDataThrows(rows) ==
  \E i \in 1..Len(rows) : Get(rows[i], "C1") = Undef \/ Get(rows[i], "C2") = Undef

\* parseInt(participant.replace(/\D/g, ''), 10): the number spelled by the
\* digits of a participant id.
ParticipantNumber(p) ==
  CASE p = Str("P1") -> 1 [] p = Str("P2") -> 2 [] p = Str("P3") -> 3
    [] p = Str("P4") -> 4 [] p = Str("P5") -> 5 [] p = Str("P6") -> 6
    [] p = Str("P7") -> 7 [] OTHER -> 8

\* numA - numB < 0: record a goes before record b.
ByParticipantNumber(a, b) ==
  ParticipantNumber(Get(a, "participant")) < ParticipantNumber(Get(b, "participant"))

\* processedData.sort(...): the array sorted by participant number.
SortedByParticipant(rows) ==
  SortSeq(rows, LAMBDA a, b : ByParticipantNumber(a, b))

\* What is in the processedData array once chartDataIndividual is prepared:
\* part_000 sorts the array itself before mapping it, App.tsx only maps it.
AfterChartData(v, rows) ==
  IF v = "part" THEN SortedByParticipant(rows) ELSE rows

(***************************************************************************)
(* Input tables                                                            *)
(***************************************************************************)
MaxRows == 2
MaxParticipants == 6
MaxCovariateRows == 3

HeaderStyles == DOMAIN ColumnOf

\* How a table carries the angry category: a column with values, a column of
\* zeros, or no column at all.
AngryModes == {"present", "zeros", "missing"}

\* Per-trial seconds of the i-th row of a table, by category.
RowSeconds(i, mode) ==
  [angry |-> IF mode = "present" THEN 1 ELSE 0, disgusted |-> 0, fearful |-> 0,
   happy |-> i, neutral |-> 3, sad |-> 0, surprised |-> 1]

LowerCaseStyles == {"lower", "secnormLower", "normLower"}

\* One trial row: the identifying columns (lower-case in a lower-case header)
\* and one column per category the header has.
TrialRow(style, missing, pid, cond, profile) ==
  LET pcol == IF style \in LowerCaseStyles THEN "participant" ELSE "Participant"
      ccol == IF style \in LowerCaseStyles THEN "condition" ELSE "Condition"
      cats == CategorySet \ {missing}
  IN [col \in {pcol, ccol} \cup {ColumnOf[style][cat] : cat \in cats} |->
        IF col = pcol THEN Str(pid)
        ELSE IF col = ccol THEN Str(cond)
        ELSE Num(profile[CHOOSE cat \in cats : ColumnOf[style][cat] = col])]

RowChoices == {"P1", "P2"} \X {"C1", "C2"}

RECURSIVE SeqsUpTo(_, _)
SeqsUpTo(S, n) ==
  IF n = 0 THEN {<< >>}
  ELSE LET shorter == SeqsUpTo(S, n - 1)
       IN shorter \cup {Append(q, x) : q \in {t \in shorter : Len(t) = n - 1}, x \in S}

SmallTable(style, mode, q) ==
  Table([i \in 1..Len(q) |->
           TrialRow(style, IF mode = "missing" THEN "angry" ELSE "none",
                    q[i][1], q[i][2], RowSeconds(i, mode))])

\* Small raw tables of every header style, with up to MaxRows rows.
SmallTables ==
  { SmallTable(style, mode, q) :
      q \in SeqsUpTo(RowChoices, MaxRows) \ {<< >>},
      style \in HeaderStyles, mode \in AngryModes }

ParticipantName(i) ==
  CASE i = 1 -> "P1" [] i = 2 -> "P2" [] i = 3 -> "P3" [] i = 4 -> "P4"
    [] i = 5 -> "P5" [] i = 6 -> "P6" [] i = 7 -> "P7" [] OTHER -> "P8"

HappyOnly(v) ==
  [angry |-> 0, disgusted |-> 0, fearful |-> 0, happy |-> v, neutral |-> 3,
   sad |-> 0, surprised |-> 0]

\* Wide raw tables: n participants, each with one C1 row (happy = 0 or its
\* index) and one C2 row (happy = 1), under the *_norm header.
WideTable(c1vals) ==
  Table([j \in 1..(2 * Len(c1vals)) |->
     LET i == (j + 1) \div 2
     IN IF j % 2 = 1
        THEN TrialRow("norm", "none", ParticipantName(i), "C1", HappyOnly(c1vals[i]))
        ELSE TrialRow("norm", "none", ParticipantName(i), "C2", HappyOnly(1))])

RECURSIVE LadderValues(_)
LadderValues(n) ==
  IF n = 0 THEN {<< >>}
  ELSE {Append(q, v) : q \in LadderValues(n - 1), v \in {0, n}}

WideTables ==
  UNION {{WideTable(q) : q \in LadderValues(n)} : n \in 1..MaxParticipants}

\* A wide table read bottom-up: the last participant's rows come first.
BottomUp(tb) == Table([i \in 1..Len(tb.rows) |-> tb.rows[Len(tb.rows) + 1 - i]])

\* Two participants, P2 met before P1.
BottomUpTable == BottomUp(WideTable(<< 1, 2 >>))

SummaryRow(label, m, sd) ==
  [Condition |-> Str(label), Mean |-> m, SD |-> sd]

\* A summary row whose mean is under the 'Mean (%)' header.
PercentSummaryRow(label, m, sd) ==
  ("Condition" :> Str(label)) @@ ("Mean (%)" :> m) @@ ("SD" :> sd)

\* The pre-aggregated summary table: both conditions, under either header of
\* the mean, or only C1.
SummaryTables ==
  { Table(<< SummaryRow("C1", Rat(25, 2), Num(3)),
               SummaryRow("C2", Num(10), Num(2)) >>),
    Table(<< PercentSummaryRow("C1", Rat(25, 2), Num(3)),
               PercentSummaryRow("C2", Num(10), Num(2)) >>),
    Table(<< SummaryRow("C1", Rat(25, 2), Num(3)) >>) }

PrecomputedEmotionTables ==
  { Table(<< [emotion |-> Str("happy"), c1_mean |-> Num(3), c2_mean |-> Num(1),
               diff_mean |-> Num(2), W |-> Num(15), z |-> Rat(19, 10),
               p |-> Rat(4, 1000)],
              [emotion |-> Str("sad"), c1_mean |-> Num(1), c2_mean |-> Num(1),
               diff_mean |-> Num(0), W |-> Num(7), z |-> Num(0),
               p |-> Rat(9, 10)] >>) }

\* A covariate table of m rows with one covariate column Q1, ascending or
\* constant down the rows.
CovariateTable(m, pattern) ==
  Table([i \in 1..m |->
     [participant |-> Str(ParticipantName(i)),
      Q1 |-> IF pattern = "ascending" THEN Num(i) ELSE Num(3)]])

CovariateTables ==
  {CovariateTable(m, pattern) :
     m \in 1..MaxCovariateRows, pattern \in {"ascending", "constant"}}

PrecomputedCorrelationTables ==
  { Table(<< [variable |-> Str("Q1"), rho |-> Rat(1, 2)] >>) }

OrNull(S) == S \cup {Null}

(***************************************************************************)
(* The mount effect: the tables are requested in parallel and stored once  *)
(* every request has settled.                                              *)
(***************************************************************************)
\* The states of a parseCsvUrl promise: pending, rejected (Papa's error
\* callback), or resolved with the parsed rows (Papa's complete callback).
Pending == [k |-> "pending"]
Rejected == [k |-> "rejected"]
Resolved(rows) == [k |-> "resolved", rows |-> rows]

\* The tables the effect requests, in the order of the Promise.all array;
\* part_000 has no description table.
Requests(v) ==
  IF v = "App"
  THEN << "rawGrouped", "aggregated", "wilcoxonPerEmotion", "subjective",
          "spearman", "description" >>
  ELSE << "rawGrouped", "aggregated", "wilcoxonPerEmotion", "subjective",
          "spearman" >>

RequestSet(v) == {Requests(v)[i] : i \in 1..Len(Requests(v))}

\* parseCsvUrl(url).catch(() => []): the array a settled request contributes
\* to the result of Promise.all.
CaughtResult(load) == IF load.k = "resolved" THEN load.rows ELSE << >>

\* A variant of StoredValue that stores an empty array as a table.
StoredValueEvenEmpty(r) == Table(r)

\* r.length ? r : null
StoredValue(r) == IF Len(r) > 0 THEN Table(r) ELSE Null

\* A variant of AllSettled that is satisfied by the first settled request.
AnySettled(l) == \E t \in DOMAIN l : l[t] # Pending

\* Promise.all fulfils when every element has: no request is pending.
AllSettled(l) == \A t \in DOMAIN l : l[t] # Pending

\* The value the then-callback stores for table t; a table that is not
\* requested keeps its initial null.
StoredFor(l, t) ==
  IF t \in DOMAIN l THEN StoredValue(CaughtResult(l[t])) ELSE Null

RowsOf(S) == {tb.rows : tb \in S}

\* What each requested file may parse to, when it has rows.
ParsedRows(t) ==
  CASE t = "rawGrouped" ->
         RowsOf({WideTable(<< 1, 2 >>), BottomUpTable,
                 SmallTable("norm", "present", << << "P1", "C2" >> >>)})
    [] t = "aggregated" -> RowsOf(SummaryTables)
    [] t = "wilcoxonPerEmotion" -> RowsOf(PrecomputedEmotionTables)
    [] t = "subjective" -> RowsOf({CovariateTable(2, "ascending")})
    [] t = "spearman" -> RowsOf(PrecomputedCorrelationTables)
    [] t = "description" ->
         {<< [variable |-> Str("Age"), value |-> Num(30)] >>}

\* The requests as they stand once the tables of a state are stored: a
\* loaded table was resolved with its rows, an absent one was rejected.
SettledAs(v, raw, agg, wpe, subj, sp, desc) ==
  LET stored == [rawGrouped |-> raw, aggregated |-> agg,
                 wilcoxonPerEmotion |-> wpe, subjective |-> subj,
                 spearman |-> sp, description |-> desc]
  IN [t \in RequestSet(v) |->
        IF stored[t] = Null THEN Rejected ELSE Resolved(stored[t].rows)]

(***************************************************************************)
(* The state machine: the tables are stored, then the component renders.   *)
(***************************************************************************)
\* No statistical primitive is called on its own.
NoPrimitiveCall ==
  /\ seriesA = << >>
  /\ seriesB = << >>
  /\ testResult = NotComputed

MemosNotComputed ==
  /\ results = NotComputed
  /\ processedData = NotComputed
  /\ stats = NotComputed
  /\ shapiro = NotComputed
  /\ mainTest = NotComputed
  /\ cohens = NotComputed
  /\ emotionAnalysis = NotComputed
  /\ subjectiveStats = NotComputed
  /\ chiSquareResult = NotComputed
  /\ spearmanCorrelations = NotComputed

\* The wide tables short enough to pair row for row with a covariate table.
PairableTables ==
  UNION {{WideTable(q) : q \in LadderValues(n)} : n \in 1..MaxCovariateRows}

\* A table whose only row is under C2.
LoneConditionTable == SmallTable("norm", "present", << << "P1", "C2" >> >>)

\* Raw tables to go with every combination of the other tables.
SampleTables ==
  {WideTable(<< 0 >>), WideTable(<< 1, 2 >>), LoneConditionTable, BottomUpTable}

\* The states after the load has stored its tables: a small raw table of any
\* header style alone; a wide raw table alone or, when short enough, with a
\* covariate table; a sample raw table, or none, with every combination of
\* the other tables.
Init ==
  /\ variant \in {"App", "part"}
  /\ \/ /\ rawGrouped \in SmallTables
        /\ aggregated = Null
        /\ wilcoxonPerEmotion = Null
        /\ subjective = Null
        /\ spearman = Null
     \/ /\ rawGrouped \in WideTables
        /\ aggregated = Null
        /\ wilcoxonPerEmotion = Null
        /\ subjective = Null
        /\ spearman = Null
     \/ /\ rawGrouped \in PairableTables
        /\ aggregated = Null
        /\ wilcoxonPerEmotion = Null
        /\ subjective \in CovariateTables
        /\ spearman = Null
     \/ /\ rawGrouped \in OrNull(SampleTables)
        /\ aggregated \in OrNull(SummaryTables)
        /\ wilcoxonPerEmotion \in OrNull(PrecomputedEmotionTables)
        /\ subjective \in OrNull(CovariateTables)
        /\ spearman \in OrNull(PrecomputedCorrelationTables)
  /\ description = Null
  /\ loads = SettledAs(variant, rawGrouped, aggregated, wilcoxonPerEmotion,
                       subjective, spearman, description)
  /\ setCalls = Len(Requests(variant))
  /\ MemosNotComputed
  /\ phase = "loaded"
  /\ NoPrimitiveCall

\* The emotionAnalysis callback throws: no precomputed table is loaded and a
\* record lacks a normalized mapping.
EmotionAnalysisThrows(wpe, rows) ==
  /\ ~(wpe # Null /\ Len(wpe.rows) > 0)
  /\ rows # << >>
  /\ NormalizedMissing(rows)

\* One render of App: every memo hook in order, then the chart data.  A hook
\* that throws ends the render; what comes after it is not computed.
Render ==
  /\ phase = "loaded"
  /\ results' = processedDataOf(variant, rawGrouped)
  /\ stats' = statsOf(results', aggregated)
  /\ shapiro' = shapiroOf(results')
  /\ mainTest' = mainTestOf(results', shapiro')
  /\ cohens' = cohensOf(results')
  /\ IF EmotionAnalysisThrows(wilcoxonPerEmotion, results')
     THEN /\ processedData' = results'
          /\ UNCHANGED << emotionAnalysis, subjectiveStats, chiSquareResult,
                         spearmanCorrelations >>
          /\ phase' = "emotionAnalysisThrew"
     ELSE /\ emotionAnalysis' = emotionAnalysisOf(wilcoxonPerEmotion, results')
          /\ subjectiveStats' = subjectiveStatsOf(subjective)
          /\ chiSquareResult' = chiSquareResultOf
          /\ spearmanCorrelations' =
               spearmanCorrelationsOf(spearman, subjective, results')
          /\ processedData' = AfterChartData(variant, results')
          /\ phase' = IF ChartDataThrows(results') THEN "chartDataThrew"
                      ELSE "rendered"
  /\ UNCHANGED << variant, loads, setCalls, tables, primitiveCall >>

Next == Render

Spec == Init /\ [][Next]_vars

(***************************************************************************)
(* The load lifecycle: the component mounts with every table null, the     *)
(* requests settle in any order, the then-callback of Promise.all stores   *)
(* the tables, and the component renders again.                            *)
(***************************************************************************)
\* The memos of the mount render, when every table is still null.
MemosOfMount ==
  /\ results = processedDataOf(variant, Null)
  /\ processedData = AfterChartData(variant, results)
  /\ stats = statsOf(processedData, Null)
  /\ shapiro = shapiroOf(processedData)
  /\ mainTest = mainTestOf(processedData, shapiro)
  /\ cohens = cohensOf(processedData)
  /\ emotionAnalysis = emotionAnalysisOf(Null, processedData)
  /\ subjectiveStats = subjectiveStatsOf(Null)
  /\ chiSquareResult = chiSquareResultOf
  /\ spearmanCorrelations = spearmanCorrelationsOf(Null, Null, processedData)

LoadInit ==
  /\ variant \in {"App", "part"}
  /\ loads = [t \in RequestSet(variant) |-> Pending]
  /\ setCalls = 0
  /\ rawGrouped = Null
  /\ aggregated = Null
  /\ wilcoxonPerEmotion = Null
  /\ subjective = Null
  /\ spearman = Null
  /\ description = Null
  /\ MemosOfMount
  /\ phase = "loading"
  /\ NoPrimitiveCall

\* Papa's complete callback: the request for table t resolves with the rows
\* the file parses to, possibly none.
Resolve(t) ==
  /\ t \in DOMAIN loads
  /\ loads[t] = Pending
  /\ \E rows \in ParsedRows(t) \cup {<< >>} :
       loads' = [loads EXCEPT ![t] = Resolved(rows)]
  /\ UNCHANGED << variant, setCalls, tables, memos, phase, primitiveCall >>

\* Papa's error callback: the request for table t is rejected.
Reject(t) ==
  /\ t \in DOMAIN loads
  /\ loads[t] = Pending
  /\ loads' = [loads EXCEPT ![t] = Rejected]
  /\ UNCHANGED << variant, setCalls, tables, memos, phase, primitiveCall >>

\* The then-callback of Promise.all: every set-state call, in one batch.
StoreTables ==
  /\ phase = "loading"
  /\ setCalls = 0
  /\ AllSettled(loads)
  /\ setCalls' = Len(Requests(variant))
  /\ rawGrouped' = StoredFor(loads, "rawGrouped")
  /\ aggregated' = StoredFor(loads, "aggregated")
  /\ wilcoxonPerEmotion' = StoredFor(loads, "wilcoxonPerEmotion")
  /\ subjective' = StoredFor(loads, "subjective")
  /\ spearman' = StoredFor(loads, "spearman")
  /\ description' = StoredFor(loads, "description")
  /\ phase' = "loaded"
  /\ UNCHANGED << variant, loads, memos, primitiveCall >>

AllTables ==
  {"rawGrouped", "aggregated", "wilcoxonPerEmotion", "subjective", "spearman",
   "description"}

LoadNext ==
  \/ \E t \in AllTables : Resolve(t)
  \/ \E t \in AllTables : Reject(t)
  \/ StoreTables
  \/ Render

SpecLoad == LoadInit /\ [][LoadNext]_vars

(***************************************************************************)
(* The load lifecycle when set-state calls are not batched: outside a      *)
(* React event handler each call that changes a table renders the          *)
(* component before the next call is made.  A hook is recomputed only when *)
(* one of its dependencies changed; a call that stores the value a table   *)
(* already has renders nothing.  Whether the calls are batched depends on  *)
(* the React build, so both courses are possible.                          *)
(***************************************************************************)
\* The then-callback is about to make its set-state call for table t.
NextSetCall(t) ==
  /\ phase \in {"loading", "rendered"}
  /\ AllSettled(loads)
  /\ setCalls < Len(Requests(variant))
  /\ Requests(variant)[setCalls + 1] = t

\* setRawGrouped(...) and the render it causes: processedData and every hook
\* that depends on it are recomputed, then the chart data is prepared.
SetRawGrouped ==
  /\ NextSetCall("rawGrouped")
  /\ setCalls' = setCalls + 1
  /\ rawGrouped' = StoredFor(loads, "rawGrouped")
  /\ IF rawGrouped' = Null
     THEN UNCHANGED << memos, phase >>
     ELSE /\ results' = processedDataOf(variant, rawGrouped')
          /\ stats' = statsOf(results', aggregated)
          /\ shapiro' = shapiroOf(results')
          /\ mainTest' = mainTestOf(results', shapiro')
          /\ cohens' = cohensOf(results')
          /\ UNCHANGED << subjectiveStats, chiSquareResult >>
          /\ IF EmotionAnalysisThrows(wilcoxonPerEmotion, results')
             THEN /\ processedData' = results'
                  /\ UNCHANGED << emotionAnalysis, spearmanCorrelations >>
                  /\ phase' = "emotionAnalysisThrew"
             ELSE /\ emotionAnalysis' =
                       emotionAnalysisOf(wilcoxonPerEmotion, results')
                  /\ spearmanCorrelations' =
                       spearmanCorrelationsOf(spearman, subjective, results')
                  /\ processedData' = AfterChartData(variant, results')
                  /\ phase' = IF ChartDataThrows(results') THEN "chartDataThrew"
                              ELSE "rendered"
  /\ UNCHANGED << variant, loads, aggregated, wilcoxonPerEmotion, subjective,
                  spearman, description, primitiveCall >>

\* setAggregated(...) and the render it causes: stats is recomputed from the
\* processedData array as it is now.
SetAggregated ==
  /\ NextSetCall("aggregated")
  /\ setCalls' = setCalls + 1
  /\ aggregated' = StoredFor(loads, "aggregated")
  /\ IF aggregated' = Null
     THEN UNCHANGED << memos, phase >>
     ELSE /\ stats' = statsOf(processedData, aggregated')
          /\ processedData' = AfterChartData(variant, processedData)
          /\ phase' = "rendered"
          /\ UNCHANGED << results, shapiro, mainTest, cohens, emotionAnalysis,
                          subjectiveStats, chiSquareResult, spearmanCorrelations >>
  /\ UNCHANGED << variant, loads, rawGrouped, wilcoxonPerEmotion, subjective,
                  spearman, description, primitiveCall >>

\* setWilcoxonPerEmotion(...) and the render it causes.
SetWilcoxonPerEmotion ==
  /\ NextSetCall("wilcoxonPerEmotion")
  /\ setCalls' = setCalls + 1
  /\ wilcoxonPerEmotion' = StoredFor(loads, "wilcoxonPerEmotion")
  /\ IF wilcoxonPerEmotion' = Null
     THEN UNCHANGED << memos, phase >>
     ELSE /\ emotionAnalysis' = emotionAnalysisOf(wilcoxonPerEmotion', processedData)
          /\ processedData' = AfterChartData(variant, processedData)
          /\ phase' = "rendered"
          /\ UNCHANGED << results, stats, shapiro, mainTest, cohens,
                          subjectiveStats, chiSquareResult, spearmanCorrelations >>
  /\ UNCHANGED << variant, loads, rawGrouped, aggregated, subjective, spearman,
                  description, primitiveCall >>

\* setSubjective(...) and the render it causes: subjectiveStats and
\* spearmanCorrelations are recomputed, the latter from the processedData
\* array as it is now.
SetSubjective ==
  /\ NextSetCall("subjective")
  /\ setCalls' = setCalls + 1
  /\ subjective' = StoredFor(loads, "subjective")
  /\ IF subjective' = Null
     THEN UNCHANGED << memos, phase >>
     ELSE /\ subjectiveStats' = subjectiveStatsOf(subjective')
          /\ spearmanCorrelations' =
               spearmanCorrelationsOf(spearman, subjective', processedData)
          /\ processedData' = AfterChartData(variant, processedData)
          /\ phase' = "rendered"
          /\ UNCHANGED << results, stats, shapiro, mainTest, cohens,
                          emotionAnalysis, chiSquareResult >>
  /\ UNCHANGED << variant, loads, rawGrouped, aggregated, wilcoxonPerEmotion,
                  spearman, description, primitiveCall >>

\* setSpearman(...) and the render it causes.
SetSpearman ==
  /\ NextSetCall("spearman")
  /\ setCalls' = setCalls + 1
  /\ spearman' = StoredFor(loads, "spearman")
  /\ IF spearman' = Null
     THEN UNCHANGED << memos, phase >>
     ELSE /\ spearmanCorrelations' =
               spearmanCorrelationsOf(spearman', subjective, processedData)
          /\ processedData' = AfterChartData(variant, processedData)
          /\ phase' = "rendered"
          /\ UNCHANGED << results, stats, shapiro, mainTest, cohens,
                          emotionAnalysis, subjectiveStats, chiSquareResult >>
  /\ UNCHANGED << variant, loads, rawGrouped, aggregated, wilcoxonPerEmotion,
                  subjective, description, primitiveCall >>

\* setDescription(...) and the render it causes: no hook depends on the
\* description table.
SetDescription ==
  /\ NextSetCall("description")
  /\ setCalls' = setCalls + 1
  /\ description' = StoredFor(loads, "description")
  /\ IF description' = Null
     THEN UNCHANGED << memos, phase >>
     ELSE /\ processedData' = AfterChartData(variant, processedData)
          /\ phase' = "rendered"
          /\ UNCHANGED << results, stats, shapiro, mainTest, cohens,
                          emotionAnalysis, subjectiveStats, chiSquareResult,
                          spearmanCorrelations >>
  /\ UNCHANGED << variant, loads, rawGrouped, aggregated, wilcoxonPerEmotion,
                  subjective, spearman, primitiveCall >>

RendersNext ==
  \/ \E t \in AllTables : Resolve(t)
  \/ \E t \in AllTables : Reject(t)
  \/ StoreTables
  \/ Render
  \/ SetRawGrouped
  \/ SetAggregated
  \/ SetWilcoxonPerEmotion
  \/ SetSubjective
  \/ SetSpearman
  \/ SetDescription

SpecRenders == LoadInit /\ [][RendersNext]_vars

(***************************************************************************)
(* The statistical primitives on their own: a pair of equal-length series  *)
(* is drawn and a primitive is called on it.                               *)
(***************************************************************************)
MaxSeries == 3

\* The values the drawn series are made of.
SeriesValues == {-1, 0, 2}

NumSeqsOfLen(n) == [1..n -> {Num(i) : i \in SeriesValues}]

NumSeq(q) == [i \in 1..Len(q) |-> Num(q[i])]

\* The worked examples of the primitives: a paired sample whose differences
\* are all positive, the frequencies of chiSquareResult, and a series in
\* strictly decreasing relation to another.
WorkedExamples ==
  { << NumSeq(<< 10, 12, 14, 9, 11 >>), NumSeq(<< 9, 11, 10, 8, 9 >>) >>,
    << << Num(6), Num(2), Num(2) >>,
       << Rat(333, 100), Rat(333, 100), Rat(333, 100) >> >>,
    << NumSeq(<< 1, 2, 3, 4, 5 >>), NumSeq(<< 5, 4, 3, 2, 1 >>) >> }

\* One observed and one expected frequency whose statistic is c:
\* (2c - c)^2 / c.
StatisticOf(c) == << << Add(c, c) >>, << c >> >>

\* Frequencies whose statistic is one of the thresholds of chiSquareTest's
\* p-value, or lies between two of them.
ThresholdExamples ==
  {StatisticOf(Rat(c, 100)) : c \in {461, 500, 599, 921}}

\* Ten values: one to nine and a last value.
LongSeries(last) == NumSeq(<< 1, 2, 3, 4, 5, 6, 7, 8, 9, last >>)

\* Ten values in the proportions of the coefficient table.
CoefficientSeries == NumSeq(<< -14, -8, -5, -3, -1, 1, 3, 5, 8, 14 >>)

\* Every pair of series of ten values.
LongExamples ==
  LET long == {LongSeries(last) : last \in {10, 16, 18, 22}} \cup {CoefficientSeries}
  IN long \X long

ExamplePairs == WorkedExamples \cup ThresholdExamples \cup LongExamples

SeriesPairs ==
  UNION {NumSeqsOfLen(n) \X NumSeqsOfLen(n) : n \in 0..MaxSeries}
  \cup ExamplePairs

StatsInit ==
  /\ variant \in {"App", "part"}
  /\ loads = << >>
  /\ setCalls = 0
  /\ rawGrouped = Null
  /\ aggregated = Null
  /\ wilcoxonPerEmotion = Null
  /\ subjective = Null
  /\ spearman = Null
  /\ description = Null
  /\ MemosNotComputed
  /\ phase = "primitive"
  /\ \E pair \in SeriesPairs :
       /\ seriesA = pair[1]
       /\ seriesB = pair[2]
  /\ testResult = NotComputed

\* wilcoxonSignedRank(a, b) is called on the drawn series.
CallWilcoxonSignedRank ==
  /\ phase = "primitive"
  /\ testResult' = wilcoxonSignedRank(seriesA, seriesB)
  /\ phase' = "wilcoxonSignedRank"
  /\ UNCHANGED << variant, loads, setCalls, tables, memos, seriesA, seriesB >>

\* chiSquareTest(observed, expected) is called on the drawn series.
CallChiSquareTest ==
  /\ phase = "primitive"
  /\ testResult' = chiSquareTest(seriesA, seriesB)
  /\ phase' = "chiSquareTest"
  /\ UNCHANGED << variant, loads, setCalls, tables, memos, seriesA, seriesB >>

\* shapiroWilkTest(data) is called on the first drawn series.
CallShapiroWilkTest ==
  /\ phase = "primitive"
  /\ testResult' = shapiroWilkTest(seriesA)
  /\ phase' = "shapiroWilkTest"
  /\ UNCHANGED << variant, loads, setCalls, tables, memos, seriesA, seriesB >>

\* spearmanCorrelation(x, y) is called on the drawn series.
CallSpearmanCorrelation ==
  /\ phase = "primitive"
  /\ testResult' = spearmanCorrelation(seriesA, seriesB)
  /\ phase' = "spearmanCorrelation"
  /\ UNCHANGED << variant, loads, setCalls, tables, memos, seriesA, seriesB >>

StatsNext ==
  \/ CallWilcoxonSignedRank
  \/ CallChiSquareTest
  \/ CallShapiroWilkTest
  \/ CallSpearmanCorrelation

SpecStats == StatsInit /\ [][StatsNext]_vars

(***************************************************************************)
(* The load lifecycle and the primitives side by side: either the          *)
(* component mounts and loads its tables, or a primitive is called on      *)
(* drawn series.                                                           *)
(***************************************************************************)
MountOrStatsInit == LoadInit \/ StatsInit

MountOrStatsNext == LoadNext \/ StatsNext

SpecMountOrStats == MountOrStatsInit /\ [][MountOrStatsNext]_vars

(***************************************************************************)
(* Properties                                                              *)
(***************************************************************************)
\* The hooks up to mainTest have run.
Analysed == phase \in {"rendered", "emotionAnalysisThrew", "chartDataThrew"}

RawRows == rawGrouped.rows

\* The header style of a raw table, read off the columns of its first row.
StyleOf(rows) ==
  CHOOSE style \in HeaderStyles :
    \E cat \in CategorySet : ColumnOf[style][cat] \in DOMAIN rows[1]

\* The spellings getCol resolves: an alias or its lower-case form.
AcceptedStyles == {"secnorm", "norm", "lower", "secnormLower", "normLower"}

HasColumn(rows, cat) == ColumnOf[StyleOf(rows)][cat] \in DOMAIN rows[1]

HasAllColumns(rows) == \A cat \in CategorySet : HasColumn(rows, cat)

\* The values the rows hold for a category, under the table's own spelling.
CategoryValues(rows, cat) ==
  [i \in 1..Len(rows) |-> rows[i][ColumnOf[StyleOf(rows)][cat]]]

NonNeutral == << "angry", "disgusted", "fearful", "happy", "sad", "surprised" >>

\* (sum over the non-neutral categories of the category's mean) / 120 * 100
ShareOfBudget(rows) ==
  Mul(Div(SumSeq([i \in 1..Len(NonNeutral) |->
                    mean(CategoryValues(rows, NonNeutral[i]))]),
          Num(120)), Num(100))

OneGroup(rows) ==
  \A i \in 1..Len(rows) :
    /\ ParticipantOf(rows[i]) = ParticipantOf(rows[1])
    /\ ConditionOf(rows[i]) = ConditionOf(rows[1])

ParticipantIds(rows) == {ParticipantOf(rows[i]) : i \in 1..Len(rows)}

ConditionIds(rows) == {ConditionOf(rows[i]).s : i \in 1..Len(rows)}

\* The condition ids under which participant p has rows.
ConditionsOf(rows, p) ==
  {ConditionOf(rows[i]).s : i \in {j \in 1..Len(rows) : ParticipantOf(rows[j]) = p}}

RecordsOf(p) == {i \in 1..Len(processedData) : processedData[i]["participant"] = p}

FieldOrZero(r, f) == IF f \in DOMAIN r THEN r[f] ELSE Num(0)

\* C1: in every analysis with at least one participant record the main test
\* is tagged "t", and carries t, df, p and Cohen's d of the paired t-test,
\* exactly when the Shapiro p-value of the deltas is strictly above 0.05; in
\* every other case (p = 0.05 and an undefined W included) it is tagged
\* "wilcoxon" and carries W, z, p, n and r = z / sqrt(N) of the Wilcoxon test.
MainTestTagFollowsNormality ==
  (Analysed /\ Len(processedData) > 0) =>
    LET c1 == Column(processedData, "C1")
        c2 == Column(processedData, "C2")
        above == shapiro.p.n * 100 > 5 * shapiro.p.d
    IN /\ mainTest.type = "t" <=> above
       /\ mainTest.type # "t" => mainTest.type = "wilcoxon"
       /\ mainTest.type = "t" =>
            mainTest = [type |-> "t", effectSize |-> cohensD(c1, c2)]
                       @@ pairedTTest(c1, c2)
       /\ mainTest.type = "wilcoxon" =>
            /\ DOMAIN mainTest = {"type", "effectSize", "W", "z", "p", "n"}
            /\ [f \in {"W", "z", "p", "n"} |-> mainTest[f]]
                 = wilcoxonSignedRank(c1, c2)
            /\ mainTest.effectSize
                 = Div(mainTest.z, Sqrt(Num(Len(processedData))))

\* A rendered analysis that took the parametric branch.
ParametricBranchTaken ==
  /\ phase = "rendered"
  /\ Len(processedData) > 0
  /\ mainTest.type = "t"
  /\ GT(shapiro.p, Rat(5, 100))

\* A rendered analysis whose Shapiro p-value is exactly 0.05.
ThresholdTakesWilcoxon ==
  /\ phase = "rendered"
  /\ Len(processedData) > 0
  /\ shapiro.p = Rat(5, 100)
  /\ mainTest.type = "wilcoxon"

\* C2: every participant record's delta is its C1 aggregate minus its C2
\* aggregate, an absent aggregate counting as 0.
DeltaIsDifference ==
  Analysed =>
    \A i \in 1..Len(processedData) :
      processedData[i]["delta"]
        = Sub(FieldOrZero(processedData[i], "C1"),
              FieldOrZero(processedData[i], "C2"))

\* A record without a C2 aggregate whose delta is its non-zero C1 aggregate.
DeltaOfLoneCondition ==
  /\ Analysed
  /\ \E i \in 1..Len(processedData) :
       /\ "C2" \notin DOMAIN processedData[i]
       /\ "C1" \in DOMAIN processedData[i]
       /\ processedData[i]["C1"] # Num(0)
       /\ processedData[i]["delta"] = processedData[i]["C1"]

\* C3: the records are exactly one per distinct participant id of the raw
\* rows, and every record carries a normalized mapping over the seven
\* categories for every condition id that occurs in the raw rows.
OneRecordPerParticipant ==
  (Analysed /\ rawGrouped # Null) =>
    /\ \A p \in ParticipantIds(RawRows) : Cardinality(RecordsOf(p)) = 1
    /\ \A i \in 1..Len(processedData) :
         /\ processedData[i]["participant"] \in ParticipantIds(RawRows)
         /\ \A c \in ConditionIds(RawRows) :
              /\ NormalizedKey(c) \in DOMAIN processedData[i]
              /\ DOMAIN processedData[i][NormalizedKey(c)] = CategorySet

\* Two participants with repeated rows, collapsed to two records.
RepeatedParticipantsCollapsed ==
  /\ Analysed
  /\ rawGrouped # Null
  /\ Len(RawRows) > Len(processedData)
  /\ Cardinality(ParticipantIds(RawRows)) = 2
  /\ Len(processedData) = 2

\* C4: for one participant and one condition with k >= 1 rows, under any
\* accepted column spelling, the aggregate is the sum of the six non-neutral
\* category means / 120 * 100.
AggregateIsShareOfBudget ==
  (/\ Analysed
   /\ rawGrouped # Null
   /\ OneGroup(RawRows)
   /\ StyleOf(RawRows) \in AcceptedStyles
   /\ HasAllColumns(RawRows)) =>
    Get(processedData[1], ConditionOf(RawRows[1]).s) = ShareOfBudget(RawRows)

\* C5: a participant with rows under exactly one of C1 and C2 has a record
\* whose other aggregate is 0, whose other normalized mapping is all-zero and
\* whose delta is +C1 or -C2 of the present condition.
MissingConditionIsZero ==
  (Analysed /\ rawGrouped # Null) =>
    \A p \in ParticipantIds(RawRows) :
      \A i \in RecordsOf(p) :
        /\ ConditionsOf(RawRows, p) = {"C1"} =>
             /\ Get(processedData[i], "C2") = Num(0)
             /\ Get(processedData[i], "C2_normalized") = ZeroNormalized
             /\ processedData[i]["delta"] = Get(processedData[i], "C1")
        /\ ConditionsOf(RawRows, p) = {"C2"} =>
             /\ Get(processedData[i], "C1") = Num(0)
             /\ Get(processedData[i], "C1_normalized") = ZeroNormalized
             /\ processedData[i]["delta"] = Neg(Get(processedData[i], "C2"))

\* The raw rows with an all-zero column added for the angry category.
WithZeroAngry(rows) ==
  [i \in 1..Len(rows) |->
     (ColumnOf[StyleOf(rows)]["angry"] :> Num(0)) @@ rows[i]]

NormalizedKeys == {"C1_normalized", "C2_normalized"}

\* C6: when the rows have no column for a category under any accepted alias,
\* that category's normalized value is 0 and every other category has the
\* value it has when the column is present with all-zero values.
MissingColumnLeavesOthers ==
  (/\ Analysed
   /\ rawGrouped # Null
   /\ StyleOf(RawRows) \in AcceptedStyles
   /\ ~HasColumn(RawRows, "angry")) =>
    LET filled == processedDataOf(variant, Table(WithZeroAngry(RawRows)))
    IN \A i \in 1..Len(processedData) :
         \A key \in NormalizedKeys \cap DOMAIN processedData[i] :
           /\ processedData[i][key]["angry"] = Num(0)
           /\ \A cat \in CategorySet \ {"angry"} :
                processedData[i][key][cat] = filled[i][key][cat]

\* C7: a column whose header differs from an accepted alias only in letter
\* case is resolved, so the category's normalized value is the mean of the
\* column.
CaseVariantResolved ==
  (/\ Analysed
   /\ rawGrouped # Null
   /\ OneGroup(RawRows)
   /\ StyleOf(RawRows) = "normUpper"
   /\ HasAllColumns(RawRows)) =>
    \A cat \in CategorySet :
      processedData[1][NormalizedKey(ConditionOf(RawRows[1]).s)][cat]
        = mean(CategoryValues(RawRows, cat))

\* C8: whatever tables are loaded and whatever the raw rows, no report
\* section throws.
NoSectionThrows == phase # "emotionAnalysisThrew"

\* C9: a series of length 1 leaves no undefined (0/0) standard deviation in
\* the report.
NoUndefinedDeviation ==
  phase = "rendered" =>
    /\ Len(processedData) = 1 => \A f \in StatsFields : ~IsNaN(stats[f].std)
    /\ (subjective # Null /\ Len(subjective.rows) = 1) =>
         \A key \in DOMAIN subjectiveStats : ~IsNaN(subjectiveStats[key].std)

IsConstant(arr) == \A i, j \in 1..Len(arr) : arr[i] = arr[j]

\* C10: the Spearman coefficient of the deltas with a constant covariate
\* series of length >= 2 is undefined, not a number.
ConstantSeriesUndefined ==
  (/\ phase = "rendered"
   /\ spearman = Null
   /\ subjective # Null
   /\ Len(subjective.rows) >= 2
   /\ Len(subjective.rows) = Len(processedData)) =>
    \A key \in DOMAIN spearmanCorrelations :
      IsConstant(CovariateColumn(subjective.rows, key)) =>
        ~Defined(spearmanCorrelations[key])

\* The state variable that holds table t.
StoredTable(t) ==
  CASE t = "rawGrouped" -> rawGrouped
    [] t = "aggregated" -> aggregated
    [] t = "wilcoxonPerEmotion" -> wilcoxonPerEmotion
    [] t = "subjective" -> subjective
    [] t = "spearman" -> spearman
    [] t = "description" -> description

LoadedWithRows(load) == load.k = "resolved" /\ load.rows # << >>

\* C11: whichever requests fail, once the tables are stored every table whose
\* request resolved with at least one row is stored with exactly those rows,
\* and every table whose request was rejected or resolved empty is null.
TablesFollowLoads ==
  phase # "loading" =>
    \A t \in DOMAIN loads :
      IF LoadedWithRows(loads[t])
      THEN StoredTable(t) = Table(loads[t].rows)
      ELSE StoredTable(t) = Null

\* The tables are stored after one request was rejected, one resolved empty
\* and one resolved with rows.
StoredDespiteFailure ==
  /\ phase = "loaded"
  /\ \E t \in DOMAIN loads : loads[t] = Rejected /\ StoredTable(t) = Null
  /\ \E t \in DOMAIN loads : loads[t] = Resolved(<< >>) /\ StoredTable(t) = Null
  /\ \E t \in DOMAIN loads :
       LoadedWithRows(loads[t]) /\ StoredTable(t) = Table(loads[t].rows)

\* C12: a step changes a stored table only when no request is pending, and
\* the tables it stores are determined by what each request settled with,
\* whatever the order the requests settled in.
StoredOnlyAtJoin ==
  [][tables' # tables =>
       /\ \A t \in DOMAIN loads : loads[t] # Pending
       /\ \A t \in DOMAIN loads :
            StoredTable(t)' = IF LoadedWithRows(loads[t])
                              THEN Table(loads[t].rows) ELSE Null]_vars

\* A request has resolved with rows while another is pending, and no table
\* is stored yet.
SettledButNotStored ==
  /\ \E t \in DOMAIN loads : LoadedWithRows(loads[t]) /\ StoredTable(t) = Null
  /\ \E t \in DOMAIN loads : loads[t] = Pending
  /\ \A t \in AllTables : StoredTable(t) = Null

\* The rows of the summary table labelled with a condition.
SummaryRowsFor(label) ==
  {i \in 1..Len(aggregated.rows) : aggregated.rows[i]["Condition"] = Str(label)}

SummaryRowFor(label) == aggregated.rows[CHOOSE i \in SummaryRowsFor(label) : TRUE]

\* The cell of a summary row that holds its mean, whichever header it is under.
SummaryMeanOf(r) ==
  IF "Mean" \in DOMAIN r THEN r["Mean"] ELSE r["Mean (%)"]

\* C13: the summary table is used only when there is no participant record;
\* then, if it has a C1 row and a C2 row, the descriptive statistics hold
\* each row's mean and SD and Delta's mean is the C1 mean minus the C2 mean,
\* and the normality result and the main test are absent.  When there are
\* records, the statistics are those of the records, whatever the summary.
SummaryOnlyAsFallback ==
  Analysed =>
    /\ (/\ Len(processedData) = 0
        /\ aggregated # Null
        /\ SummaryRowsFor("C1") # {}
        /\ SummaryRowsFor("C2") # {}) =>
         /\ stats.C1.mean = SummaryMeanOf(SummaryRowFor("C1"))
         /\ stats.C1.std = SummaryRowFor("C1")["SD"]
         /\ stats.C2.mean = SummaryMeanOf(SummaryRowFor("C2"))
         /\ stats.C2.std = SummaryRowFor("C2")["SD"]
         /\ stats.Delta.mean = Sub(SummaryMeanOf(SummaryRowFor("C1")),
                                   SummaryMeanOf(SummaryRowFor("C2")))
         /\ shapiro = Null
         /\ mainTest = Null
    /\ Len(processedData) > 0 =>
         stats = [f \in StatsFields |->
                    Describe(Column(processedData, RecordField(f)))]

\* The series a category has under a condition across the records.
CategorySeries(key, em) ==
  [i \in 1..Len(processedData) |-> processedData[i][key][em]]

\* The covariate columns of the covariate table: all but the identifier.
CovariateColumns == DOMAIN subjective.rows[1] \ {"participant"}

\* C14: with no precomputed per-category table the per-category section is
\* recomputed from the records, six rows in the order angry, disgusted,
\* fearful, happy, sad, surprised, or is empty when there is no record; with
\* no precomputed correlation table there is one recomputed correlation per
\* covariate column, or none when the covariate table or the records are
\* missing; a loaded precomputed table is reported as it is, never
\* recomputed.
SectionsRecomputedOnlyWhenAbsent ==
  Analysed =>
    /\ (wilcoxonPerEmotion = Null /\ Len(processedData) > 0) =>
         /\ phase # "emotionAnalysisThrew"
         /\ [i \in 1..Len(emotionAnalysis) |-> emotionAnalysis[i].emotion]
              = [i \in 1..6 |-> Str(NonNeutral[i])]
         /\ \A i \in 1..6 :
              /\ emotionAnalysis[i].c1_mean
                   = mean(CategorySeries("C1_normalized", NonNeutral[i]))
              /\ emotionAnalysis[i].c2_mean
                   = mean(CategorySeries("C2_normalized", NonNeutral[i]))
    /\ (wilcoxonPerEmotion = Null /\ Len(processedData) = 0) =>
         emotionAnalysis = << >>
    /\ wilcoxonPerEmotion # Null =>
         /\ Len(emotionAnalysis) = Len(wilcoxonPerEmotion.rows)
         /\ \A i \in 1..Len(emotionAnalysis) :
              \A f \in {"emotion", "c1_mean", "c2_mean", "diff_mean", "W", "z", "p"} :
                emotionAnalysis[i][f] = wilcoxonPerEmotion.rows[i][f]
    /\ phase # "emotionAnalysisThrew" =>
         /\ (spearman = Null /\ subjective # Null /\ Len(processedData) > 0) =>
              /\ DOMAIN spearmanCorrelations = CovariateColumns
              /\ \A key \in CovariateColumns :
                   spearmanCorrelations[key]
                     = spearmanCorrelation(Column(processedData, "delta"),
                                           Column(subjective.rows, key))
         /\ (spearman = Null /\ (subjective = Null \/ Len(processedData) = 0)) =>
              DOMAIN spearmanCorrelations = {}
         /\ spearman # Null =>
              /\ DOMAIN spearmanCorrelations
                   = {spearman.rows[i]["variable"].s : i \in 1..Len(spearman.rows)}
              /\ \A i \in 1..Len(spearman.rows) :
                   spearmanCorrelations[spearman.rows[i]["variable"].s]
                     = spearman.rows[i]["rho"]

\* The pairs of the drawn series whose difference is not zero.
NonZeroPairs == {i \in 1..Len(seriesA) : seriesA[i] # seriesB[i]}

\* C15: wilcoxonSignedRank reports as n the number of pairs whose difference
\* is not zero, and with no such pair (empty or identical series included) it
\* returns exactly W = 0, z = 0, p = 1, n = 0.
ZeroDifferencesDropped ==
  phase = "wilcoxonSignedRank" =>
    /\ testResult.n = Num(Cardinality(NonZeroPairs))
    /\ NonZeroPairs = {} =>
         testResult = [W |-> Num(0), z |-> Num(0), p |-> Num(1), n |-> Num(0)]

\* The test has run on series with a zero difference and a non-zero one.
SomePairsDropped ==
  /\ phase = "wilcoxonSignedRank"
  /\ NonZeroPairs # {}
  /\ Cardinality(NonZeroPairs) < Len(seriesA)
  /\ testResult.n = Num(Cardinality(NonZeroPairs))

\* C16: with n >= 1 non-zero differences,
\* z = (W+ - n(n+1)/4 - s * 0.5) / sqrt(n(n+1)(2n+1)/24) with
\* s = sign(W+ - n(n+1)/4) in {-1, 0, 1}; so z = 0 when W+ = n(n+1)/4, and z
\* never has the sign opposite to that of W+ - n(n+1)/4.
ContinuityCorrectedZ ==
  (phase = "wilcoxonSignedRank" /\ NonZeroPairs # {}) =>
    LET n == Cardinality(NonZeroPairs)
        excess == Sub(testResult.W, Rat(n * (n + 1), 4))
        s == Sign(excess.n)
    IN /\ testResult.z
            = Div(Sub(excess, Rat(s, 2)),
                  Sqrt(Rat(n * (n + 1) * (2 * n + 1), 24)))
       /\ s = 0 => testResult.z = Num(0)
       /\ SignOf(testResult.z) * s >= 0

\* The pairs whose difference is strictly positive.
PositivePairs == {i \in 1..Len(seriesA) : GT(seriesA[i], seriesB[i])}

AbsDifference(i) == MathAbs(Sub(seriesA[i], seriesB[i]))

\* Twice the rank of pair i among the non-zero absolute differences, ties
\* sharing the average of the ranks they occupy.
TwiceRank(i) ==
  2 * Cardinality({j \in NonZeroPairs : GT(AbsDifference(i), AbsDifference(j))})
  + Cardinality({j \in NonZeroPairs : AbsDifference(j) = AbsDifference(i)}) + 1

RECURSIVE TwiceRankSum(_)
TwiceRankSum(S) ==
  IF S = {} THEN 0
  ELSE LET i == CHOOSE x \in S : TRUE
       IN TwiceRank(i) + TwiceRankSum(S \ {i})

\* C17: the W that wilcoxonSignedRank returns is the sum of the ranks of the
\* strictly positive differences: n(n+1)/2 when every non-zero difference is
\* positive, 0 when every one is negative.
PositiveRanksSummed ==
  (phase = "wilcoxonSignedRank" /\ NonZeroPairs # {}) =>
    LET n == Cardinality(NonZeroPairs)
    IN /\ testResult.W = Rat(TwiceRankSum(PositivePairs), 2)
       /\ PositivePairs = NonZeroPairs => testResult.W = Rat(n * (n + 1), 2)
       /\ PositivePairs = {} => testResult.W = Num(0)

\* The test has run on a = [10, 12, 14, 9, 11], b = [9, 11, 10, 8, 9] and
\* returned W = 15.
AllPositiveExample ==
  /\ phase = "wilcoxonSignedRank"
  /\ seriesA = NumSeq(<< 10, 12, 14, 9, 11 >>)
  /\ seriesB = NumSeq(<< 9, 11, 10, 8, 9 >>)
  /\ PositivePairs = 1..5
  /\ testResult.W = Num(15)

\* The contribution of index i to the chi-square statistic.
ChiSquareTerm(i) ==
  IF GT(seriesB[i], Num(0))
  THEN Div(Square(Sub(seriesA[i], seriesB[i])), seriesB[i])
  ELSE Num(0)

\* C20: chiSquareTest(observed, expected) returns the sum of
\* (observed - expected)^2 / expected over the indices with expected > 0,
\* the other indices contributing nothing, and df = k - 1 for k the length
\* of observed, skipped indices included.
ChiSquareOverPositiveExpected ==
  phase = "chiSquareTest" =>
    /\ testResult.chiSq = SumSeq([i \in 1..Len(seriesA) |-> ChiSquareTerm(i)])
    /\ testResult.df = Num(Len(seriesA) - 1)

\* The test has run on series with a skipped index and a contributing one.
SomeIndexSkipped ==
  /\ phase = "chiSquareTest"
  /\ \E i \in 1..Len(seriesB) : ~GT(seriesB[i], Num(0))
  /\ \E i \in 1..Len(seriesB) :
       GT(seriesB[i], Num(0)) /\ seriesA[i] # seriesB[i]
  /\ GT(testResult.chiSq, Num(0))
  /\ testResult.df = Num(Len(seriesA) - 1)

\* C18: on the Wilcoxon branch of the main test the effect size is z divided
\* by the square root of the number of participant records, not of the
\* number n of non-zero differences the test reports.
EffectSizeUsesRecordCount ==
  (Analysed /\ Len(processedData) > 0 /\ mainTest.type = "wilcoxon") =>
    mainTest.effectSize = Div(mainTest.z, Sqrt(Num(Len(processedData))))

\* A Wilcoxon main test that excluded a zero difference, so that z / sqrt(n)
\* is not the effect size.
EffectSizeAfterExclusion ==
  /\ phase = "rendered"
  /\ Len(processedData) > 0
  /\ mainTest.type = "wilcoxon"
  /\ GT(mainTest.n, Num(0))
  /\ GT(Num(Len(processedData)), mainTest.n)
  /\ mainTest.effectSize # Div(mainTest.z, Sqrt(mainTest.n))
  /\ mainTest.effectSize = Div(mainTest.z, Sqrt(Num(Len(processedData))))

\* min(p * count, 1) for a raw p-value p.
AdjustedBy(p, count) ==
  CASE p.k = "rat" -> IF p.n * count > p.d THEN Num(1) ELSE Rat(p.n * count, p.d)
    [] p.k = "tail" ->
         IF MagnitudeGT(p.x, CriticalOneSixth) THEN [p EXCEPT !.m = count]
         ELSE Num(1)

\* x <= y for p-values: rationals, or tails of one argument.
NotAbove(x, y) ==
  CASE x.k = "rat" /\ y.k = "rat" -> x.n * y.d <= y.n * x.d
    [] x.k = "tail" /\ y.k = "rat" -> y.n >= y.d
    [] x.k = "tail" /\ y.k = "tail" -> x.x = y.x /\ x.m <= y.m
    [] OTHER -> FALSE

\* C19: in every row of the per-category table, recomputed or precomputed,
\* the adjusted p is min(raw p * number of rows of the table, 1), so that
\* raw p <= adjusted p <= 1, and the row's tag is "**" below 0.01, "*" below
\* 0.05 and "ns" otherwise.
BonferroniByRowCount ==
  phase \in {"rendered", "chartDataThrew"} =>
    \A i \in 1..Len(emotionAnalysis) :
      /\ emotionAnalysis[i].p_bonferroni
           = AdjustedBy(emotionAnalysis[i].p, Len(emotionAnalysis))
      /\ NotAbove(emotionAnalysis[i].p, emotionAnalysis[i].p_bonferroni)
      /\ \/ emotionAnalysis[i].p_bonferroni = Num(1)
         \/ BelowLevel(emotionAnalysis[i].p_bonferroni, Num(1), CriticalOneSixth)
      /\ SignificanceTag(emotionAnalysis[i].p_bonferroni)
           = SignificanceTag(AdjustedBy(emotionAnalysis[i].p, Len(emotionAnalysis)))

\* The component is mounted: the hooks of the mount render have run.
Mounted ==
  phase \in {"loading", "loaded", "rendered", "emotionAnalysisThrew",
             "chartDataThrew"}

AtLeastAsNormal(w1, w2) ==
  /\ w1.k = "big"
  /\ w2.k = "big"
  /\ ~BigGT(BigMul(w2.n, w1.d), BigMul(w1.n, w2.d))

\* C22: the p of shapiroWilkTest is 0.7 when W is above 0.95, else 0.2 when
\* above 0.90, else 0.05 when above 0.85, else 0.01, so it is one of these
\* four values; and a series whose W is at least that of another series has
\* a p at least that of the other.
ShapiroLadder ==
  phase = "shapiroWilkTest" =>
    LET above(c) == RatioGT(testResult.W, Rat(c, 100))
        other == shapiroWilkTest(seriesB)
    IN /\ testResult.p = Rat(7, 10) <=> above(95)
       /\ testResult.p = Rat(2, 10) <=> (above(90) /\ ~above(95))
       /\ testResult.p = Rat(5, 100) <=> (above(85) /\ ~above(90))
       /\ testResult.p = Rat(1, 100) <=> ~above(85)
       /\ AtLeastAsNormal(testResult.W, other.W) => ~GT(other.p, testResult.p)

\* The test has run on a series with W in (0.90, 0.95] and p = 0.2, next to a
\* series with a smaller W and p = 0.05.
MiddleSteps ==
  /\ phase = "shapiroWilkTest"
  /\ RatioGT(testResult.W, Rat(90, 100))
  /\ ~RatioGT(testResult.W, Rat(95, 100))
  /\ testResult.p = Rat(2, 10)
  /\ shapiroWilkTest(seriesB).p = Rat(5, 100)

\* C23: for a series of two or more values the W of shapiroWilkTest is a
\* number in [0, 1].
StatisticInUnitInterval ==
  (phase = "shapiroWilkTest" /\ Len(seriesA) >= 2) =>
    /\ testResult.W.k = "big"
    /\ ~RatioGT(testResult.W, Num(1))

PairwiseDistinct(q) == \A i, j \in 1..Len(q) : i # j => q[i] # q[j]

\* The second series is strictly increasing in the first.
IncreasingTogether ==
  \A i, j \in 1..Len(seriesA) :
    GT(seriesA[i], seriesA[j]) => GT(seriesB[i], seriesB[j])

\* The second series is strictly decreasing in the first.
DecreasingOpposed ==
  \A i, j \in 1..Len(seriesA) :
    GT(seriesA[i], seriesA[j]) => GT(seriesB[j], seriesB[i])

\* C24: on two series of two or more pairwise distinct values,
\* spearmanCorrelation returns exactly -1 when the second is strictly
\* decreasing in the first, exactly 1 when it is strictly increasing, and a
\* number in [-1, 1] in every case.
SpearmanAtExtremes ==
  (/\ phase = "spearmanCorrelation"
   /\ Len(seriesA) >= 2
   /\ PairwiseDistinct(seriesA)
   /\ PairwiseDistinct(seriesB)) =>
    /\ DecreasingOpposed => testResult = Num(-1)
    /\ IncreasingTogether => testResult = Num(1)
    /\ LE(Num(-1), testResult)
    /\ LE(testResult, Num(1))

\* The correlation of x = [1, 2, 3, 4, 5] and y = [5, 4, 3, 2, 1] is -1.
OpposedExample ==
  /\ phase = "spearmanCorrelation"
  /\ seriesA = NumSeq(<< 1, 2, 3, 4, 5 >>)
  /\ seriesB = NumSeq(<< 5, 4, 3, 2, 1 >>)
  /\ DecreasingOpposed
  /\ testResult = Num(-1)

\* The items of the rank-assignment loop for the drawn series.
AssignedItems ==
  RankedItems(SelectSeq(Differences(seriesA, seriesB), ExceedsEpsilon))

\* Twice the average of the ranks occupied by the non-zero absolute
\* differences equal to v.
TwiceAverageRank(v) ==
  2 * Cardinality({j \in NonZeroPairs : GT(v, AbsDifference(j))})
  + Cardinality({j \in NonZeroPairs : AbsDifference(j) = v}) + 1

\* C27: in wilcoxonSignedRank equal absolute differences all get the average
\* of the ranks they occupy, the ranks of the n non-zero differences sum to
\* n(n+1)/2, and 0 <= W+ <= n(n+1)/2.
TiesShareAverageRank ==
  phase = "wilcoxonSignedRank" =>
    LET n == Cardinality(NonZeroPairs)
    IN /\ \A k \in 1..Len(AssignedItems) :
            AssignedItems[k].rank = Rat(TwiceAverageRank(AssignedItems[k].val), 2)
       /\ Len(AssignedItems) = n
       /\ SumSeq([k \in 1..n |-> AssignedItems[k].rank]) = Rat(n * (n + 1), 2)
       /\ LE(Num(0), testResult.W)
       /\ LE(testResult.W, Rat(n * (n + 1), 2))

\* The test has run on three non-zero differences, the two smallest equal in
\* absolute value and of opposite signs: they share rank 1.5.
TiedPairRanked ==
  /\ phase = "wilcoxonSignedRank"
  /\ Len(AssignedItems) = 3
  /\ AssignedItems[1].rank = Rat(3, 2)
  /\ AssignedItems[2].rank = Rat(3, 2)
  /\ AssignedItems[1].sign # AssignedItems[2].sign
  /\ AssignedItems[3].rank = Num(3)

\* C28: wilcoxonSignedRank on the two series swapped returns the same n and
\* p, n(n+1)/2 - W in place of W, and -z in place of z.
SwapNegatesZ ==
  phase = "wilcoxonSignedRank" =>
    LET swapped == wilcoxonSignedRank(seriesB, seriesA)
        n == Cardinality(NonZeroPairs)
    IN /\ swapped.n = testResult.n
       /\ swapped.p = testResult.p
       /\ swapped.W = Sub(Rat(n * (n + 1), 2), testResult.W)
       /\ swapped.z = Neg(testResult.z)

\* The fields of a participant record that both source files report.
SharedFields ==
  {"participant", "C1", "C2", "delta", "C1_normalized", "C2_normalized"}

\* C30: on every raw table the aggregator of App.tsx and the aggregator of
\* part_000 derive the same records: the same participants in the same
\* order, with equal C1, C2, delta and per-condition normalized values, for
\* rows with raw-seconds columns as for rows with *_norm columns.
AggregatorsAgree ==
  (Analysed /\ rawGrouped # Null) =>
    LET app == processedDataOf("App", rawGrouped)
        part == processedDataOf("part", rawGrouped)
    IN /\ Len(app) = Len(part)
       /\ \A i \in 1..Len(app) :
            \A field \in SharedFields : Get(app[i], field) = Get(part[i], field)

\* C26: the participant records stay as they were derived from the raw
\* table, in order and contents, through every later step of a render
\* (statistics, chart data, export).
RecordsKeptAsDerived ==
  phase \in {"rendered", "chartDataThrew"} =>
    /\ processedData = results
    /\ processedData = processedDataOf(variant, rawGrouped)

\* The participants of the raw table in the order they are first met.
RECURSIVE EncounterOrder(_, _)
EncounterOrder(rows, i) ==
  IF i = 0 THEN << >>
  ELSE LET before == EncounterOrder(rows, i - 1)
       IN IF \E j \in 1..(i - 1) : ParticipantOf(rows[j]) = ParticipantOf(rows[i])
          THEN before
          ELSE Append(before, ParticipantOf(rows[i]))

\* The delta of participant p's record.
DeltaOf(p) ==
  LET i == CHOOSE j \in 1..Len(processedData) :
             Get(processedData[j], "participant") = p
  IN Get(processedData[i], "delta")

\* The deltas of the participants in raw-table encounter order.
EncounterDeltas ==
  LET order == EncounterOrder(RawRows, Len(RawRows))
  IN [i \in 1..Len(order) |-> DeltaOf(order[i])]

\* C29: whenever the correlation table has been recomputed from records and
\* covariates, each covariate column is correlated with the deltas of the
\* participants in raw-table encounter order, whether the covariate table
\* is stored in the same render as the raw table or in a later one.
DeltasPairedInEncounterOrder ==
  (/\ phase = "rendered"
   /\ rawGrouped # Null
   /\ subjective # Null
   /\ spearman = Null) =>
    \A key \in DOMAIN spearmanCorrelations :
      spearmanCorrelations[key]
        = spearmanCorrelation(EncounterDeltas,
                              CovariateColumn(subjective.rows, key))

\* C25: once every table is stored and rendered, each report value is the
\* value a run on these tables alone yields, whatever renders came before.
ReportIsFunctionOfTables ==
  (phase = "rendered" /\ setCalls = Len(Requests(variant))) =>
    /\ processedData
         = AfterChartData(variant, processedDataOf(variant, rawGrouped))
    /\ stats = statsOf(processedDataOf(variant, rawGrouped), aggregated)
    /\ shapiro = shapiroOf(processedDataOf(variant, rawGrouped))
    /\ mainTest = mainTestOf(processedDataOf(variant, rawGrouped), shapiro)
    /\ cohens = cohensOf(processedDataOf(variant, rawGrouped))
    /\ emotionAnalysis
         = emotionAnalysisOf(wilcoxonPerEmotion,
                             processedDataOf(variant, rawGrouped))
    /\ subjectiveStats = subjectiveStatsOf(subjective)
    /\ chiSquareResult = chiSquareResultOf
    /\ spearmanCorrelations
         = spearmanCorrelationsOf(spearman, subjective,
                                  processedDataOf(variant, rawGrouped))

====
